---- MODULE Spec2Model ----
(***************************************************************************)
(* Storage core of HeavenOS: the block allocator (storage/block_alloc.rs), *)
(* the file table (storage/file_table.rs) and the SQLite VFS adapter       *)
(* (vfs/sqlite_vfs.rs) over an NVMe namespace with a volatile write cache. *)
(*                                                                         *)
(* A block is modelled by BlockSize representative bytes; all byte/block   *)
(* arithmetic of the code is kept (offset / bs, offset % bs, ceilings).    *)
(* debug_assert! is a build-dependent check: where one fails the model     *)
(* takes both outcomes, the panic of a debug build (panicked) and the      *)
(* continuation of a release build.                                        *)
(***************************************************************************)
EXTENDS Integers, Sequences, FiniteSets, TLC

\* ---------------------------------------------------------------- bounds
\* Bytes per block that the model tracks.
BlockSize == 2
\* Blocks of the namespace the VFS specifications run on.
TotalBlocks == 40
\* Blocks of the namespace the allocator-only specification runs on.
AllocTotalBlocks == 11
\* Largest count passed to alloc/free in the allocator-only specification.
MaxCount == 3
\* free_count is followed up to data_block_count + MaxDrift.
MaxDrift == 3
\* shared_count is followed within MaxShared of 0 (from either side, mod 2^32).
MaxShared == 1
\* Handle slots the callers of the VFS hold.
MaxHandles == 2
\* Callers running VFS operations concurrently.
MaxThreads == 2
\* Blocks of the namespace whose bitmap takes more than one 64-bit word.
WordTotalBlocks == 80
\* Namespaces of 2..MaxGeomBlocks blocks are formatted and loaded.
MaxGeomBlocks == 70

\* ------------------------------------------------------ program constants
INITIAL_ALLOC_BLOCKS == 16
MAX_ENTRIES == 42
MAX_NAME_LEN == 64
SQLITE_SHM_NLOCK == 8

SQLITE_OK == "SQLITE_OK"
SQLITE_ERROR == "SQLITE_ERROR"
SQLITE_BUSY == "SQLITE_BUSY"
SQLITE_IOERR == "SQLITE_IOERR"
SQLITE_FULL == "SQLITE_FULL"
SQLITE_CANTOPEN == "SQLITE_CANTOPEN"
SQLITE_IOERR_READ == "SQLITE_IOERR_READ"
SQLITE_IOERR_SHORT_READ == "SQLITE_IOERR_SHORT_READ"
SQLITE_IOERR_WRITE == "SQLITE_IOERR_WRITE"
SQLITE_IOERR_FSYNC == "SQLITE_IOERR_FSYNC"
SQLITE_IOERR_NOMEM == "SQLITE_IOERR_NOMEM"

VARIABLES
    alloc,      \* BlockAllocator: bitmap, geometry, free_count, dirty
    ft,         \* FileTable: entries, dirty
    files,      \* the HeavenFile handles the callers hold
    dev,        \* device content as reads see it (write cache included)
    media,      \* device content on non-volatile media
    shm,        \* SHM: whether it is Some, and the ShmState
    queue,      \* a QueuePair, its CQ ring, and the controller posting into it
    phys,       \* PhysPageAllocator: the clear bits of its bitmap, total_pages, free_pages
    heap,       \* SlabAllocator: the free lists, the blocks handed out, the HHDM offset
    drv,        \* NvmeDriver and its controller: registers, admin queue, init position
    call,       \* the last call made and its arguments
    rc,         \* what that call returned
    out,        \* the caller's buffer when the last call was a read
    panicked,   \* a debug_assert! failed in a debug build: the kernel halted
    owner,      \* the caller holding each of the mutexes NVME, allocator, file_table
    at          \* each concurrent caller's operation and its position in it

vars == <<alloc, ft, files, dev, media, shm, call, rc, out, panicked, owner, at,
          queue, phys, heap, drv>>

Min(S) == CHOOSE x \in S : \A y \in S : x <= y
CeilDiv(a, b) == (a + b - 1) \div b

\* ------------------------------------------------------- block allocator

\* BlockAllocator::format, the layout computation and the in-memory state.
\* A bitmap is held as the set of the block indices whose bit is 1.
FormatAllocator(total_blocks, block_size) ==
    LET data_bits_per_block == block_size * 8
        overhead == 1
        file_table_blocks == 1
        approx_data == total_blocks - overhead - file_table_blocks
        bitmap_blocks == CeilDiv(approx_data, data_bits_per_block)
        data_start == overhead + bitmap_blocks + file_table_blocks
        data_blocks == IF total_blocks >= data_start THEN total_blocks - data_start ELSE 0
    IN  [bitmap |-> {},
         data_block_count |-> data_blocks,
         data_start_lba |-> data_start,
         bitmap_start_lba |-> 1,
         bitmap_on_disk_blocks |-> bitmap_blocks,
         block_size |-> block_size,
         free_count |-> data_blocks,
         dirty |-> FALSE]

\* BlockAllocator::format, the superblock it writes to LBA 0.
FormatSuperblock(total_blocks, block_size) ==
    LET a == FormatAllocator(total_blocks, block_size)
    IN  [valid |-> TRUE,
         block_size |-> block_size,
         total_blocks |-> total_blocks,
         bitmap_start_lba |-> 1,
         bitmap_block_count |-> a.bitmap_on_disk_blocks,
         file_table_start_lba |-> 1 + a.bitmap_on_disk_blocks,
         file_table_block_count |-> 1,
         data_start_lba |-> a.data_start_lba,
         data_block_count |-> a.data_block_count]

\* The run taken from the end of the valid range.
FindRun_Last(bitmap, start, count, total) == IF count > total THEN -1 ELSE total - count

\* The scan of BlockAllocator::alloc: the start of the first run of count
\* clear bits at or after start, or -1.  A set bit at idx restarts at idx + 1.
RECURSIVE FindRun(_, _, _, _)
FindRun(bitmap, start, count, total) ==
    IF start + count > total THEN -1
    ELSE LET used == {i \in 0..(count - 1) : (start + i) \in bitmap}
         IN  IF used = {} THEN start
             ELSE FindRun(bitmap, start + Min(used) + 1, count, total)

\* BlockAllocator::alloc: [ok, start, a] with a the allocator afterwards.
AllocBlocks(a, count) ==
    IF count = 0 THEN [ok |-> FALSE, err |-> "InvalidSize", start |-> 0, a |-> a]
    ELSE IF a.free_count < count
    THEN [ok |-> FALSE, err |-> "OutOfSpace", start |-> 0, a |-> a]
    ELSE LET s == FindRun(a.bitmap, 0, count, a.data_block_count)
         IN  IF s = -1
             THEN [ok |-> FALSE, err |-> "OutOfSpace", start |-> 0, a |-> a]
             ELSE [ok |-> TRUE, err |-> "", start |-> s,
                   a |-> [a EXCEPT
                       !.bitmap = a.bitmap \cup (s..(s + count - 1)),
                       !.free_count = a.free_count - count,
                       !.dirty = TRUE]]

\* The debug_assert! of BlockAllocator::free fails: some bit is already clear.
FreeOfClearBit(a, start, count) ==
    \E i \in start..(start + count - 1) : i \notin a.bitmap

\* The bits left set and the counter left alone.
FreeBlocks_Kept(a, start, count) == [a EXCEPT !.dirty = TRUE]

\* BlockAllocator::free (the debug_assert! aside): the allocator afterwards.
FreeBlocks(a, start, count) ==
    [a EXCEPT
        !.bitmap = a.bitmap \ (start..(start + count - 1)),
        !.free_count = a.free_count + count,
        !.dirty = TRUE]

\* ------------------------------------------------------ WAL shared memory

\* shared_count is a u32.  The model checker's integers have 32 bits, so a u32 is
\* held by the representative of its residue mod 2^32 that is nearest 0: -1 stands
\* for 2^32 - 1 (u32::MAX), and + 1 and - 1 wrap as the release build's do.
\* The u32 comparison "c > 0".
Positive(c) == c # 0

\* ShmLockState::default
DefaultLock == [shared_count |-> 0, exclusive |-> FALSE]

\* ShmLockState::try_shared
TryShared(l) ==
    IF l.exclusive THEN [ok |-> FALSE, l |-> l]
    ELSE [ok |-> TRUE, l |-> [l EXCEPT !.shared_count = l.shared_count + 1]]

\* ShmLockState::try_exclusive
TryExclusive(l) ==
    IF l.exclusive \/ Positive(l.shared_count) THEN [ok |-> FALSE, l |-> l]
    ELSE [ok |-> TRUE, l |-> [l EXCEPT !.exclusive = TRUE]]

\* ShmLockState::release_shared (the wrapping subtraction of a release build)
ReleaseShared(l) == [l EXCEPT !.shared_count = l.shared_count - 1]

\* ShmLockState::release_exclusive
ReleaseExclusive(l) == [l EXCEPT !.exclusive = FALSE]

\* The roll-back loops left out: the slots taken by the call stay taken.
RollbackLocks_Kept(locks, offset, i, is_exclusive) == locks

\* The roll-back loops of shm_lock: release slots offset..i-1.
RollbackLocks(locks, offset, i, is_exclusive) ==
    [j \in DOMAIN locks |->
        IF j >= offset /\ j < i
        THEN (IF is_exclusive THEN ReleaseExclusive(locks[j]) ELSE ReleaseShared(locks[j]))
        ELSE locks[j]]

\* The loop of HeavenVfs::shm_lock from slot i on: [rc, locks, dbg], dbg set
\* when a debug_assert! of release_shared / release_exclusive failed on the way.
RECURSIVE ShmLockLoop(_, _, _, _, _, _, _)
ShmLockLoop(locks, offset, n, i, is_lock, is_exclusive, dbg) ==
    IF i >= offset + n THEN [rc |-> SQLITE_OK, locks |-> locks, dbg |-> dbg]
    ELSE IF i >= SQLITE_SHM_NLOCK THEN [rc |-> SQLITE_ERROR, locks |-> locks, dbg |-> dbg]
    ELSE IF is_lock
    THEN LET t == IF is_exclusive THEN TryExclusive(locks[i]) ELSE TryShared(locks[i])
         IN  IF ~t.ok
             THEN [rc |-> SQLITE_BUSY,
                   locks |-> RollbackLocks(locks, offset, i, is_exclusive),
                   dbg |-> dbg]
             ELSE ShmLockLoop([locks EXCEPT ![i] = t.l], offset, n, i + 1,
                              is_lock, is_exclusive, dbg)
    ELSE LET bad == IF is_exclusive THEN ~locks[i].exclusive
                    ELSE ~Positive(locks[i].shared_count)
             l2 == IF is_exclusive THEN ReleaseExclusive(locks[i]) ELSE ReleaseShared(locks[i])
         IN  ShmLockLoop([locks EXCEPT ![i] = l2], offset, n, i + 1,
                         is_lock, is_exclusive, dbg \/ bad)

\* HeavenVfs::shm_lock on an existing ShmState.
ShmLockResult(locks, offset, n, is_lock, is_exclusive) ==
    ShmLockLoop(locks, offset, n, offset, is_lock, is_exclusive, FALSE)

\* ------------------------------------------------------------ file table

\* FileEntry::empty
EmptyEntry ==
    [in_use |-> FALSE, name |-> <<>>, start_block |-> 0, block_count |-> 0, byte_length |-> 0]

EntryIndex == 0..(MAX_ENTRIES - 1)

\* The entries array is held by its in-use entries: entries[i] is defined for
\* the indices i whose entry is in use, every other entry is FileEntry::empty.
InUse(entries) == DOMAIN entries
EntryAt(entries, i) == IF i \in DOMAIN entries THEN entries[i] ELSE EmptyEntry
PutEntry(entries, i, e) ==
    [j \in (DOMAIN entries) \cup {i} |-> IF j = i THEN e ELSE entries[j]]

\* FileTable::new
NewTable == [entries |-> [j \in {} |-> EmptyEntry], dirty |-> FALSE]

\* FileEntry::set_name: at most MAX_NAME_LEN - 1 bytes are kept before the null.
SetName(name) ==
    SubSeq(name, 1, IF Len(name) < MAX_NAME_LEN - 1 THEN Len(name) ELSE MAX_NAME_LEN - 1)

\* FileEntry::name_bytes: the stored bytes up to the first null.
NameBytes(e) ==
    LET nul == {i \in 1..Len(e.name) : e.name[i] = 0}
    IN  IF nul = {} THEN e.name ELSE SubSeq(e.name, 1, Min(nul) - 1)

\* FileTable::lookup: index of the first in-use entry of that name, or -1.
Lookup(t, name) ==
    LET hit == {i \in InUse(t.entries) : NameBytes(t.entries[i]) = name}
    IN  IF hit = {} THEN -1 ELSE Min(hit)

\* FileTable::create: [ok, slot, t].
CreateEntry(t, name, start_block, block_count) ==
    LET free == EntryIndex \ InUse(t.entries)
    IN  IF free = {} THEN [ok |-> FALSE, slot |-> 0, t |-> t]
        ELSE LET slot == Min(free)
             IN  [ok |-> TRUE, slot |-> slot,
                  t |-> [entries |-> PutEntry(t.entries, slot,
                                         [in_use |-> TRUE, name |-> SetName(name),
                                          start_block |-> start_block,
                                          block_count |-> block_count,
                                          byte_length |-> 0]),
                         dirty |-> TRUE]]

\* FileTable::delete
DeleteEntry(t, index) ==
    IF index >= MAX_ENTRIES \/ index \notin InUse(t.entries) THEN t
    ELSE [entries |-> [j \in InUse(t.entries) \ {index} |-> t.entries[j]], dirty |-> TRUE]

\* FileTable::get_mut returns Some: the index names an in-use entry.
HasEntry(t, index) == index < MAX_ENTRIES /\ index \in InUse(t.entries)

\* ---------------------------------------------------------------- device

\* A fault the device (or the DMA allocator) raises during one call:
\* pt names the command of the call that fails, k the block it fails at.
NoFault == [pt |-> "none", k |-> 0]

ZeroBlock == [j \in 0..(BlockSize - 1) |-> 0]

\* The data blocks are held by the blocks that are not all zero: data[l] is
\* defined for those LBAs, every other block is ZeroBlock.
BlockAt(data, l) == IF l \in DOMAIN data THEN data[l] ELSE ZeroBlock

\* NvmeDriver::read_blocks / RamDisk::read_blocks: n blocks from lba as one buffer.
ReadBlocks(data, lba, n) ==
    [x \in 0..(n * BlockSize - 1) |-> BlockAt(data, lba + (x \div BlockSize))[x % BlockSize]]

\* NvmeDriver::write_blocks / RamDisk::write_blocks: n blocks at lba from buf.
WriteBlocks(data, lba, n, buf) ==
    LET new(l) == IF l >= lba /\ l < lba + n
                  THEN [j \in 0..(BlockSize - 1) |-> buf[(l - lba) * BlockSize + j]]
                  ELSE BlockAt(data, l)
    IN  [l \in {k \in (DOMAIN data) \cup (lba..(lba + n - 1)) : new(k) # ZeroBlock} |-> new(l)]

\* BlockAllocator::flush, the loop over the bitmap blocks: block blk of the
\* on-device bitmap receives the bits it covers; a write fault at block
\* fault.k ends the loop.  [ok, bitmap] with bitmap the on-device image.
BitsPerBlock == BlockSize * 8
RECURSIVE FlushBitmapLoop(_, _, _, _)
FlushBitmapLoop(a, image, blk, fault) ==
    IF blk >= a.bitmap_on_disk_blocks THEN [ok |-> TRUE, bitmap |-> image]
    ELSE IF fault.pt = "bitmap_write" /\ fault.k = blk THEN [ok |-> FALSE, bitmap |-> image]
    ELSE FlushBitmapLoop(a,
            {i \in image : i \div BitsPerBlock # blk}
                \cup {i \in a.bitmap : i \div BitsPerBlock = blk},
            blk + 1, fault)

\* BlockAllocator::flush: [ok, a, dev].
FlushAllocator(a, d, fault) ==
    IF ~a.dirty THEN [ok |-> TRUE, a |-> a, dev |-> d]
    ELSE IF fault.pt = "bitmap_nomem" THEN [ok |-> FALSE, a |-> a, dev |-> d]
    ELSE LET w == FlushBitmapLoop(a, d.bitmap, 0, fault)
         IN  [ok |-> w.ok,
              a |-> IF w.ok THEN [a EXCEPT !.dirty = FALSE] ELSE a,
              dev |-> [d EXCEPT !.bitmap = w.bitmap]]

\* The table marked clean without the write of its block.
FlushTable_Skip(t, d, fault) ==
    [ok |-> TRUE, t |-> [t EXCEPT !.dirty = FALSE], dev |-> d]

\* FileTable::flush: [ok, t, dev].
FlushTable(t, d, fault) ==
    IF ~t.dirty THEN [ok |-> TRUE, t |-> t, dev |-> d]
    ELSE IF fault.pt \in {"table_nomem", "table_write"} THEN [ok |-> FALSE, t |-> t, dev |-> d]
    ELSE [ok |-> TRUE, t |-> [t EXCEPT !.dirty = FALSE], dev |-> [d EXCEPT !.table = t.entries]]

\* Bits of a bitmap word: the last word counts the bits of the valid range only.
WordBits == 64

\* Every word counted in full.
ValidBits_Full(i, bitmap_words, data_block_count) == WordBits

\* BlockAllocator::load, valid_bits of word i.
ValidBits(i, bitmap_words, data_block_count) ==
    IF i = bitmap_words - 1
    THEN (IF data_block_count % WordBits = 0 THEN WordBits ELSE data_block_count % WordBits)
    ELSE WordBits

\* BlockAllocator::load, the count of free blocks of words lo..hi-1: the sum of
\* valid_bits - count_ones over the words (summed by halves).
RECURSIVE CountFree(_, _, _, _, _)
CountFree(bitmap, lo, hi, bitmap_words, data_block_count) ==
    IF lo >= hi THEN 0
    ELSE IF hi = lo + 1
    THEN ValidBits(lo, bitmap_words, data_block_count)
           - Cardinality({b \in bitmap : b \div WordBits = lo})
    ELSE LET mid == (lo + hi) \div 2
         IN  CountFree(bitmap, lo, mid, bitmap_words, data_block_count)
               + CountFree(bitmap, mid, hi, bitmap_words, data_block_count)

\* BlockAllocator::load on a formatted namespace d, for a driver whose
\* namespace has the block size of a: the geometry is the superblock's, the
\* bitmap the words read from the device, free_count the clear bits counted.
LoadAllocator(a, d) ==
    LET bitmap_words == CeilDiv(d.sb.data_block_count, WordBits)
        bitmap == {b \in d.bitmap : b < WordBits * bitmap_words}
    IN  [bitmap |-> bitmap,
         data_block_count |-> d.sb.data_block_count,
         data_start_lba |-> d.sb.data_start_lba,
         bitmap_start_lba |-> d.sb.bitmap_start_lba,
         bitmap_on_disk_blocks |-> d.sb.bitmap_block_count,
         block_size |-> a.block_size,
         free_count |-> CountFree(bitmap, 0, bitmap_words, bitmap_words, d.sb.data_block_count),
         dirty |-> FALSE]

\* FileTable::load
LoadTable(d) == [entries |-> d.table, dirty |-> FALSE]

\* ------------------------------------------------------------ HeavenVfs

\* A handle that forgets the entry's byte_length.
HeavenFile_Fresh(index, start_lba, block_count, byte_length) ==
    [file_table_index |-> index, start_lba |-> start_lba,
     block_count |-> block_count, byte_length |-> 0]

\* A HeavenFile (block_size is the allocator's, the same for every handle).
HeavenFile(idx, start_lba, block_count, byte_length) ==
    [file_table_index |-> idx, start_lba |-> start_lba,
     block_count |-> block_count, byte_length |-> byte_length]

NoFile == HeavenFile(0, 0, 0, 0)

\* HeavenVfs::open: [rc, file, a, t].
OpenResult(a, t, name, create) ==
    LET idx == Lookup(t, name)
    IN  IF idx # -1
        THEN LET entry == t.entries[idx]
             IN  [rc |-> SQLITE_OK,
                  file |-> HeavenFile(idx, a.data_start_lba + entry.start_block,
                                      entry.block_count, entry.byte_length),
                  a |-> a, t |-> t]
        ELSE IF ~create THEN [rc |-> SQLITE_CANTOPEN, file |-> NoFile, a |-> a, t |-> t]
        ELSE LET r == AllocBlocks(a, INITIAL_ALLOC_BLOCKS)
             IN  IF ~r.ok THEN [rc |-> SQLITE_FULL, file |-> NoFile, a |-> a, t |-> t]
                 ELSE LET c == CreateEntry(t, name, r.start, INITIAL_ALLOC_BLOCKS)
                      IN  IF ~c.ok
                          THEN [rc |-> SQLITE_FULL, file |-> NoFile, a |-> r.a, t |-> t]
                          ELSE [rc |-> SQLITE_OK,
                                file |-> HeavenFile(c.slot, a.data_start_lba + r.start,
                                                    INITIAL_ALLOC_BLOCKS, 0),
                                a |-> r.a, t |-> c.t]

\* HeavenVfs::close: [rc, t].
CloseResult(file, t) ==
    [rc |-> SQLITE_OK,
     t |-> IF HasEntry(t, file.file_table_index)
           THEN [entries |-> [t.entries EXCEPT
                                ![file.file_table_index].byte_length = file.byte_length],
                 dirty |-> TRUE]
           ELSE t]

\* The copy taken from the start of the DMA buffer, and no zero-fill.
CopyOut_Plain(dma, first, to_read, amount) ==
    [i \in 1..amount |-> IF i <= to_read THEN dma[i - 1] ELSE 170]

\* DmaBuf::copy_to_slice into buf[..to_read] and the zero-fill of buf[to_read..].
CopyOut(dma, first, to_read, amount) ==
    [i \in 1..amount |-> IF i <= to_read THEN dma[first + i - 1] ELSE 0]

\* HeavenVfs::read into buf (a sequence of Len(buf) bytes): [rc, buf, dbg].
\* With an empty buf, to_read is 0 and the u64 arithmetic of end_block and
\* block_count goes below zero where offset is block-aligned: a debug build
\* panics there (dbg); a release build wraps, to an end_block past every file at
\* offset 0 (the bounds check fails), to a block_count of 0 elsewhere (and
\* DmaBuf::alloc(0) is an error).
ReadResult(file, data, buf, offset, fault) ==
    LET amount == Len(buf)
        zero == [i \in 1..amount |-> 0]
    IN  IF offset >= file.byte_length
        THEN [rc |-> SQLITE_IOERR_SHORT_READ, buf |-> zero, dbg |-> FALSE]
        ELSE LET available == file.byte_length - offset
                 to_read == IF amount < available THEN amount ELSE available
                 start_block == offset \div BlockSize
                 end_block == (offset + to_read - 1) \div BlockSize
                 block_count == end_block - start_block + 1
                 wraps == to_read = 0 /\ offset % BlockSize = 0
             IN  IF offset + to_read = 0 \/ start_block + block_count > file.block_count
                 THEN [rc |-> SQLITE_IOERR_SHORT_READ, buf |-> zero, dbg |-> wraps]
                 ELSE IF fault.pt = "read_nomem" \/ block_count = 0
                 THEN [rc |-> SQLITE_IOERR_NOMEM, buf |-> buf, dbg |-> wraps]
                 ELSE IF fault.pt = "read"
                 THEN [rc |-> SQLITE_IOERR_READ, buf |-> buf, dbg |-> wraps]
                 ELSE LET dma == ReadBlocks(data, file.start_lba + start_block, block_count)
                      IN  [rc |-> IF to_read < amount THEN SQLITE_IOERR_SHORT_READ
                                  ELSE SQLITE_OK,
                           buf |-> CopyOut(dma, offset % BlockSize, to_read, amount),
                           dbg |-> wraps]

\* No block copied.
CopyLoop_None(data, old_data_start, new_data_start, blk, old_block_count, fault) ==
    [rc |-> SQLITE_OK, data |-> data]

\* The copy loop of a relocating write, from block blk on: one read and one
\* write per block, in order.  [rc, data].
RECURSIVE CopyLoop(_, _, _, _, _, _)
CopyLoop(data, old_data_start, new_data_start, blk, old_block_count, fault) ==
    IF blk >= old_block_count THEN [rc |-> SQLITE_OK, data |-> data]
    ELSE IF fault.pt = "copy_read" /\ fault.k = blk
    THEN [rc |-> SQLITE_IOERR_READ, data |-> data]
    ELSE IF fault.pt = "copy_write" /\ fault.k = blk
    THEN [rc |-> SQLITE_IOERR_WRITE, data |-> data]
    ELSE CopyLoop(WriteBlocks(data, new_data_start + blk, 1,
                              ReadBlocks(data, old_data_start + blk, 1)),
                  old_data_start, new_data_start, blk + 1, old_block_count, fault)

\* FileTable::get_mut(index) followed by the assignment of start_block and block_count.
SetExtent(t, index, start_block, block_count) ==
    IF HasEntry(t, index)
    THEN [entries |-> [t.entries EXCEPT ![index].start_block = start_block,
                                        ![index].block_count = block_count],
          dirty |-> TRUE]
    ELSE t

\* The growth stage of HeavenVfs::write (needed > file.block_count):
\* [rc, file, a, t, dev, media, dbg]; rc = SQLITE_OK when the write goes on.
Relocate(file, a, t, dv, md, needed, fault) ==
    LET r == AllocBlocks(a, needed)
        stay == [rc |-> SQLITE_FULL, file |-> file, a |-> a, t |-> t,
                 dev |-> dv, media |-> md, dbg |-> FALSE]
    IN  IF ~r.ok THEN stay
        ELSE LET old_data_start == file.start_lba
                 old_start_block == file.start_lba - a.data_start_lba
                 old_block_count == file.block_count
                 new_data_start == a.data_start_lba + r.start
                 undo == FreeBlocks(r.a, r.start, needed)
             IN  IF fault.pt = "reloc_nomem"
                 THEN [stay EXCEPT !.rc = SQLITE_IOERR_NOMEM, !.a = undo]
                 ELSE LET c == CopyLoop(dv.data, old_data_start, new_data_start, 0,
                                        old_block_count, fault)
                          d2 == [dv EXCEPT !.data = c.data]
                      IN  IF c.rc # SQLITE_OK
                          THEN [stay EXCEPT !.rc = c.rc, !.a = undo, !.dev = d2]
                          ELSE IF fault.pt = "reloc_flush"
                          THEN [stay EXCEPT !.rc = SQLITE_IOERR_FSYNC, !.a = undo, !.dev = d2]
                          ELSE [rc |-> SQLITE_OK,
                                file |-> [file EXCEPT !.start_lba = new_data_start,
                                                      !.block_count = needed],
                                a |-> FreeBlocks(r.a, old_start_block, old_block_count),
                                t |-> SetExtent(t, file.file_table_index, r.start, needed),
                                dev |-> d2, media |-> d2,
                                dbg |-> FreeOfClearBit(r.a, old_start_block, old_block_count)]

\* The new data laid over a zeroed buffer.
Overlay_Zeroed(dma, first, data) ==
    [x \in DOMAIN dma |->
        IF x >= first /\ x < first + Len(data) THEN data[x - first + 1] ELSE 0]

\* Step 2 of the read-modify-write path: the new data laid over the blocks read.
Overlay(dma, first, data) ==
    [x \in DOMAIN dma |->
        IF x >= first /\ x < first + Len(data) THEN data[x - first + 1] ELSE dma[x]]

\* DmaBuf::alloc (zeroed) followed by copy_from_slice(data): the aligned path's buffer.
Direct(size, data) == [x \in 0..(size - 1) |-> IF x < Len(data) THEN data[x + 1] ELSE 0]

\* The data stage of HeavenVfs::write: [rc, dev].  DmaBuf::alloc(0) is an error.
DataWrite(file, dv, data, offset, fault) ==
    LET amount == Len(data)
        start_block == offset \div BlockSize
        end_block == (offset + amount - 1) \div BlockSize
        block_count == end_block - start_block + 1
        start_lba == file.start_lba + start_block
        first == offset % BlockSize
        is_aligned == first = 0 /\ amount % BlockSize = 0
        dma_size == block_count * BlockSize
    IN  IF fault.pt = "data_nomem" \/ dma_size = 0
        THEN [rc |-> SQLITE_IOERR_NOMEM, dev |-> dv]
        ELSE IF ~is_aligned /\ fault.pt = "rmw_read" THEN [rc |-> SQLITE_IOERR_READ, dev |-> dv]
        ELSE IF fault.pt = "data_write" THEN [rc |-> SQLITE_IOERR_WRITE, dev |-> dv]
        ELSE LET dma == IF is_aligned THEN Direct(dma_size, data)
                        ELSE Overlay(ReadBlocks(dv.data, start_lba, block_count), first, data)
             IN  [rc |-> SQLITE_OK,
                  dev |-> [dv EXCEPT !.data = WriteBlocks(dv.data, start_lba, block_count, dma)]]

\* HeavenVfs::write: [rc, file, a, t, dev, media, dbg].
\* With empty data the u64 arithmetic of end_block and block_count goes below
\* zero where offset is block-aligned: a debug build panics there (dbg); a
\* release build wraps, at offset 0 to a block count no allocator holds
\* (alloc fails: SQLITE_FULL), elsewhere to a block_count of 0.
WriteResult(file, a, t, dv, md, data, offset, fault) ==
    LET amount == Len(data)
        start_block == offset \div BlockSize
        end_block == (offset + amount - 1) \div BlockSize
        block_count == end_block - start_block + 1
        needed == start_block + block_count
        wraps == amount = 0 /\ offset % BlockSize = 0
        stay == [rc |-> SQLITE_OK, file |-> file, a |-> a, t |-> t,
                 dev |-> dv, media |-> md, dbg |-> FALSE]
        g == IF offset + amount = 0 THEN [stay EXCEPT !.rc = SQLITE_FULL]
             ELSE IF needed > file.block_count
             THEN Relocate(file, a, t, dv, md, needed, fault)
             ELSE stay
    IN  IF g.rc # SQLITE_OK THEN [g EXCEPT !.dbg = wraps]
        ELSE LET w == DataWrite(g.file, g.dev, data, offset, fault)
                 new_end == offset + amount
             IN  [g EXCEPT !.rc = w.rc, !.dev = w.dev, !.dbg = g.dbg \/ wraps,
                           !.file = IF w.rc = SQLITE_OK /\ new_end > g.file.byte_length
                                    THEN [g.file EXCEPT !.byte_length = new_end]
                                    ELSE g.file]

\* The status of the NVMe Flush ignored.
SyncResult_NoBarrier(file, a, t, dv, md, fault) ==
    LET t1 == CloseResult(file, t).t
        fa == FlushAllocator(a, dv, fault)
        fb == FlushTable(t1, fa.dev, fault)
    IN  IF ~fa.ok
        THEN [rc |-> SQLITE_IOERR_FSYNC, a |-> fa.a, t |-> t1, dev |-> fa.dev, media |-> md]
        ELSE IF ~fb.ok
        THEN [rc |-> SQLITE_IOERR_FSYNC, a |-> fa.a, t |-> fb.t, dev |-> fb.dev, media |-> md]
        ELSE [rc |-> SQLITE_OK, a |-> fa.a, t |-> fb.t, dev |-> fb.dev,
              media |-> IF fault.pt = "flush" THEN md ELSE fb.dev]

\* HeavenVfs::sync: [rc, a, t, dev, media].
SyncResult(file, a, t, dv, md, fault) ==
    LET t1 == CloseResult(file, t).t
        fa == FlushAllocator(a, dv, fault)
        fb == FlushTable(t1, fa.dev, fault)
    IN  IF ~fa.ok
        THEN [rc |-> SQLITE_IOERR_FSYNC, a |-> fa.a, t |-> t1, dev |-> fa.dev, media |-> md]
        ELSE IF ~fb.ok \/ fault.pt = "flush"
        THEN [rc |-> SQLITE_IOERR_FSYNC, a |-> fa.a, t |-> fb.t, dev |-> fb.dev, media |-> md]
        ELSE [rc |-> SQLITE_OK, a |-> fa.a, t |-> fb.t, dev |-> fb.dev, media |-> fb.dev]

\* A truncate that changes nothing whatever the size.
TruncateResult_NoOp(file, a, t, size) ==
    [rc |-> SQLITE_OK, file |-> file, a |-> a, t |-> t, dbg |-> FALSE]

\* HeavenVfs::truncate: [rc, file, a, t, dbg].
TruncateResult(file, a, t, size) ==
    IF size > file.byte_length
    THEN [rc |-> SQLITE_OK, file |-> file, a |-> a, t |-> t, dbg |-> FALSE]
    ELSE LET needed_blocks == IF size = 0 THEN 1 ELSE CeilDiv(size, BlockSize)
             f1 == [file EXCEPT !.byte_length = size]
             idx == file.file_table_index
         IN  IF needed_blocks < file.block_count
             THEN LET old_start_block == file.start_lba - a.data_start_lba
                      excess_start == old_start_block + needed_blocks
                      excess_count == file.block_count - needed_blocks
                  IN  [rc |-> SQLITE_OK,
                       file |-> [f1 EXCEPT !.block_count = needed_blocks],
                       a |-> FreeBlocks(a, excess_start, excess_count),
                       t |-> IF HasEntry(t, idx)
                             THEN [entries |-> [t.entries EXCEPT
                                                  ![idx].block_count = needed_blocks,
                                                  ![idx].byte_length = size],
                                   dirty |-> TRUE]
                             ELSE t,
                       dbg |-> FreeOfClearBit(a, excess_start, excess_count)]
             ELSE [rc |-> SQLITE_OK, file |-> f1, a |-> a, t |-> t, dbg |-> FALSE]

\* HeavenVfs::delete: [rc, a, t, dbg].
DeleteResult(a, t, name) ==
    LET idx == Lookup(t, name)
    IN  IF idx = -1 THEN [rc |-> SQLITE_OK, a |-> a, t |-> t, dbg |-> FALSE]
        ELSE LET entry == t.entries[idx]
             IN  [rc |-> SQLITE_OK,
                  a |-> FreeBlocks(a, entry.start_block, entry.block_count),
                  t |-> DeleteEntry(t, idx),
                  dbg |-> FreeOfClearBit(a, entry.start_block, entry.block_count)]

\* ------------------------------------------------------- the state machine

\* The allocator the VFS runs on, as BlockAllocator::format leaves it.
Formatted == FormatAllocator(TotalBlocks, BlockSize)

DataLbas == Formatted.data_start_lba..(TotalBlocks - 1)

\* The namespace after BlockAllocator::format(total_blocks, block_size):
\* superblock, zeroed bitmap and file table, flushed; the data blocks of a
\* blank disk.
FormatImage(total_blocks, block_size) ==
    [sb |-> FormatSuperblock(total_blocks, block_size),
     bitmap |-> {},
     table |-> NewTable.entries,
     data |-> [l \in {} |-> ZeroBlock]]

BlankDevice == FormatImage(TotalBlocks, BlockSize)

\* ------------------------------------------------------------ NVMe queue

\* A CompletionEntry's cid_status: Command Identifier[31:16], Status[15:1],
\* Phase Tag[0].
CidStatus(cid, status, phase) == cid * 65536 + (status * 2 + (IF phase THEN 1 ELSE 0))

\* CompletionEntry::phase and CompletionEntry::status
Phase(cid_status) == cid_status % 2 # 0
Status(cid_status) == (cid_status \div 2) % 32768

\* QueuePair::new(id, size): cq_head 0, cq_phase true, a zeroed CQ buffer; and
\* the controller at the start of its first lap, nothing posted, nothing
\* returned yet.
NewQueue(size) ==
    [size |-> size, cq_head |-> 0, cq_phase |-> TRUE,
     cq_buf |-> [i \in 0..(size - 1) |-> 0],
     tail |-> 0, lap_phase |-> TRUE,
     posted |-> <<>>, returned |-> <<>>]

\* No queue pair.
NoQueue == [size |-> 0]

\* poll_completion that never inverts the phase it expects.
PollCompletion_NoFlip(q) ==
    LET cqe == q.cq_buf[q.cq_head]
    IN  IF Phase(cqe) = q.cq_phase
        THEN [some |-> TRUE, status |-> Status(cqe),
              cq_head |-> (q.cq_head + 1) % q.size, cq_phase |-> q.cq_phase]
        ELSE [some |-> FALSE, status |-> 0, cq_head |-> q.cq_head, cq_phase |-> q.cq_phase]

\* QueuePair::poll_completion: [some, status, cq_head, cq_phase].
PollCompletion(q) ==
    LET cqe == q.cq_buf[q.cq_head]
        head == (q.cq_head + 1) % q.size
    IN  IF Phase(cqe) = q.cq_phase
        THEN [some |-> TRUE, status |-> Status(cqe),
              cq_head |-> head,
              cq_phase |-> IF head = 0 THEN ~q.cq_phase ELSE q.cq_phase]
        ELSE [some |-> FALSE, status |-> 0, cq_head |-> q.cq_head, cq_phase |-> q.cq_phase]

\* ------------------------------------------------------------ physical pages

PAGE_SIZE == 4096
MAX_PAGES == 1024 * 1024

\* A physical address or a length, as whole pages and the bytes beyond them.
Addr(page, off) == [page |-> page, off |-> off]

\* PhysPageAllocator::new: every bit set (used), no page counted. The bitmap is
\* held by the indices of its clear bits.
PhysNew == [free |-> {}, total_pages |-> 0, free_pages |-> 0]

\* The pages of a region (base, length) that init frees: from base rounded up
\* to (base + length) rounded down, below MAX_PAGES.
RegionPages(r) ==
    LET start_page == r[1].page + (IF r[1].off > 0 THEN 1 ELSE 0)
        end_page == r[1].page + r[2].page + ((r[1].off + r[2].off) \div PAGE_SIZE)
    IN  {page \in start_page..(end_page - 1) : page < MAX_PAGES}

\* (base + length) / PAGE_SIZE of a region.
RegionEnd(r) == r[1].page + r[2].page + ((r[1].off + r[2].off) \div PAGE_SIZE)

Max(S) == CHOOSE x \in S : \A y \in S : x >= y

\* PhysPageAllocator::init(regions)
PhysInit(p, regions) ==
    LET freed == UNION {RegionPages(regions[k]) : k \in DOMAIN regions}
        max_page == IF regions = <<>> THEN 0
                    ELSE Max({RegionEnd(regions[k]) : k \in DOMAIN regions})
    IN  [free |-> p.free \cup freed,
         total_pages |-> IF max_page < MAX_PAGES THEN max_page ELSE MAX_PAGES,
         free_pages |-> p.free_pages + Cardinality(freed \ p.free)]

\* PhysPageAllocator::mark_used(base, count), base in page start_page.
MarkUsed(p, start_page, count) ==
    LET taken == {page \in start_page..(start_page + count - 1) :
                    page < MAX_PAGES /\ page \in p.free}
    IN  [p EXCEPT !.free = @ \ taken, !.free_pages = @ - Cardinality(taken)]

\* usize::is_power_of_two
RECURSIVE IsPowerOfTwo(_)
IsPowerOfTwo(n) == n >= 1 /\ (n = 1 \/ (n % 2 = 0 /\ IsPowerOfTwo(n \div 2)))

\* The scan of alloc_pages_contiguous: the least align-aligned page index from
\* which count pages are free below total_pages, or -1.
FindPages(p, count, align) ==
    LET starts == {a \in p.free :
                     /\ a + count <= p.total_pages
                     /\ a % align = 0
                     /\ \A i \in 0..(count - 1) : (a + i) \in p.free}
    IN  IF starts = {} THEN -1 ELSE Min(starts)

\* PhysPageAllocator::alloc_pages_contiguous(count, align): [ok, page, p].
AllocPagesContiguous(p, count, align) ==
    IF count = 0 \/ ~IsPowerOfTwo(align) \/ p.free_pages < count
    THEN [ok |-> FALSE, page |-> 0, p |-> p]
    ELSE LET a == FindPages(p, count, align)
         IN  IF a = -1 THEN [ok |-> FALSE, page |-> 0, p |-> p]
             ELSE [ok |-> TRUE, page |-> a,
                   p |-> [p EXCEPT !.free = @ \ (a..(a + count - 1)),
                                   !.free_pages = @ - count]]

\* free_pages that counts every page it is given.
FreePages_Counted(p, start_page, count) ==
    LET given == {page \in start_page..(start_page + count - 1) : page < MAX_PAGES}
    IN  [p EXCEPT !.free = @ \cup given, !.free_pages = @ + Cardinality(given)]

\* PhysPageAllocator::free_pages(base, count), base in page start_page.
FreePages(p, start_page, count) ==
    LET freed == {page \in start_page..(start_page + count - 1) :
                    page < MAX_PAGES /\ page \notin p.free}
    IN  [p EXCEPT !.free = @ \cup freed, !.free_pages = @ + Cardinality(freed)]

\* ------------------------------------------------------------ kernel heap

HEADER_SIZE == 16
LARGE_ALLOC == 255
SLAB_CLASSES == <<8, 16, 32, 64, 128, 256, 512, 1024, 2048, 4096>>

NullPtr == Addr(-1, 0)

\* PhysAddr::as_ptr of the start of a physical page: virt = phys + hhdm_offset,
\* the offset counted in pages.
AsPtr(h, page) == Addr(page + h.hhdm, 0)

\* SlabAllocator::new with the HHDM offset set at boot: empty free lists, no
\* header written, nothing handed out.
NewHeap(hhdm) ==
    [hhdm |-> hhdm,
     free_lists |-> [c \in 0..9 |-> <<>>],
     header |-> [x \in {} |-> [size |-> 0, class |-> 0]],
     live |-> {}]

\* SlabAllocator::class_for_size: the first class of at least size, or -1.
ClassForSize(size) ==
    LET fit == {c \in 0..9 : SLAB_CLASSES[c + 1] >= size}
    IN  IF fit = {} THEN -1 ELSE Min(fit)

\* entries_per_page of refill_class
EntriesPerPage(class) == PAGE_SIZE \div (SLAB_CLASSES[class + 1] + HEADER_SIZE)

\* SlabAllocator::refill_class: [ok, h, p]. The free list is a stack, its head
\* the first element; the last entry carved becomes the head.
RefillClass(h, p, class) ==
    LET entry_size == SLAB_CLASSES[class + 1] + HEADER_SIZE
        entries_per_page == EntriesPerPage(class)
    IN  IF entries_per_page = 0 THEN [ok |-> FALSE, h |-> h, p |-> p]
        ELSE LET r == AllocPagesContiguous(p, 1, 1)
                 base == AsPtr(h, r.page)
                 usable(i) == Addr(base.page, i * entry_size + HEADER_SIZE)
                 carved == {usable(i) : i \in 0..(entries_per_page - 1)}
             IN  IF ~r.ok THEN [ok |-> FALSE, h |-> h, p |-> p]
                 ELSE [ok |-> TRUE, p |-> r.p,
                       h |-> [h EXCEPT
                                !.free_lists[class] =
                                    [k \in 1..entries_per_page |->
                                        usable(entries_per_page - k)] \o @,
                                !.header =
                                    [x \in (DOMAIN @) \cup carved |->
                                        IF x \in carved
                                        THEN [size |-> SLAB_CLASSES[class + 1],
                                              class |-> class]
                                        ELSE @[x]]]]

\* GlobalAlloc::alloc of SlabAllocator for a layout of size bytes aligned to
\* align: [ptr, h, p].
HeapAlloc(h, p, layout_size, align) ==
    LET size == IF layout_size > align THEN layout_size ELSE align
        class == ClassForSize(size)
    IN  IF class # -1
        THEN LET r == IF h.free_lists[class] = <<>> THEN RefillClass(h, p, class)
                      ELSE [ok |-> TRUE, h |-> h, p |-> p]
             IN  IF ~r.ok \/ r.h.free_lists[class] = <<>>
                 THEN [ptr |-> NullPtr, h |-> h, p |-> p]
                 ELSE [ptr |-> Head(r.h.free_lists[class]),
                       h |-> [r.h EXCEPT !.free_lists[class] = Tail(@)],
                       p |-> r.p]
        ELSE LET total == size + HEADER_SIZE
                 pages == CeilDiv(total, PAGE_SIZE)
                 r == AllocPagesContiguous(p, pages, 1)
                 base == AsPtr(h, r.page)
                 ptr == Addr(base.page, HEADER_SIZE)
             IN  IF ~r.ok THEN [ptr |-> NullPtr, h |-> h, p |-> p]
                 ELSE [ptr |-> ptr, p |-> r.p,
                       h |-> [h EXCEPT
                                !.header =
                                    [x \in (DOMAIN @) \cup {ptr} |->
                                        IF x = ptr
                                        THEN [size |-> pages * PAGE_SIZE - HEADER_SIZE,
                                              class |-> LARGE_ALLOC]
                                        ELSE @[x]]]]

\* GlobalAlloc::dealloc of SlabAllocator: [h, p]. The header is read from
\* HEADER_SIZE bytes before ptr; a large block is given back to the page
\* allocator at PhysAddr::new(header_ptr as u64), the virtual address.
HeapDealloc(h, p, ptr) ==
    LET hd == h.header[ptr]
    IN  IF hd.class = LARGE_ALLOC
        THEN LET total == hd.size + HEADER_SIZE
                 pages == CeilDiv(total, PAGE_SIZE)
             IN  [h |-> h, p |-> FreePages(p, ptr.page, pages)]
        ELSE [h |-> [h EXCEPT !.free_lists[hd.class] = <<ptr>> \o @], p |-> p]

\* ------------------------------------------------------------ NVMe driver

SQ_ENTRY_SIZE == 64
CQ_ENTRY_SIZE == 16
AQ_SIZE == 32
IO_QUEUE_MAX == 64
PRP_ENTRY_SIZE == 8

\* DmaBuf::alloc(size) and DmaBuf::alloc_aligned(size, 1): [ok, page, p].
DmaAlloc(p, size) ==
    IF size = 0 THEN [ok |-> FALSE, page |-> 0, p |-> p]
    ELSE AllocPagesContiguous(p, CeilDiv(size, PAGE_SIZE), 1)

\* Drop for DmaBuf: the pages of the buffer go back to the page allocator.
DmaDrop(p, page, size) == FreePages(p, page, CeilDiv(size, PAGE_SIZE))

\* QueuePair::new(id, size): [ok, q, p]. The driver's fields are sq_tail,
\* cq_head, cq_phase, next_cid and the two buffers (the SQ buffer held by the
\* command id of each slot); the rest is the controller's side of the pair:
\* the tail doorbell it last saw, its fetch position in the SQ, its posting
\* position and lap phase in the CQ, and how many commands were rung and
\* how many completions the driver took.
QueuePairNew(p, size) ==
    LET sq == DmaAlloc(p, size * SQ_ENTRY_SIZE)
        cq == DmaAlloc(sq.p, size * CQ_ENTRY_SIZE)
    IN  IF ~sq.ok THEN [ok |-> FALSE, q |-> NoQueue, p |-> p]
        ELSE IF ~cq.ok
        THEN [ok |-> FALSE, q |-> NoQueue,
              p |-> DmaDrop(sq.p, sq.page, size * SQ_ENTRY_SIZE)]
        ELSE [ok |-> TRUE, p |-> cq.p,
              q |-> [size |-> size, sq_page |-> sq.page, cq_page |-> cq.page,
                     sq_tail |-> 0, cq_head |-> 0, cq_phase |-> TRUE, next_cid |-> 0,
                     sq_buf |-> [i \in 0..(size - 1) |-> 0],
                     cq_buf |-> [i \in 0..(size - 1) |-> 0],
                     sq_doorbell |-> 0, sq_head |-> 0, tail |-> 0, lap_phase |-> TRUE,
                     rung |-> 0, taken |-> 0]]

\* submit that advances sq_tail by two slots.
Submit_TwoSlots(q) ==
    [q EXCEPT !.sq_buf[q.sq_tail] = q.next_cid,
              !.next_cid = (@ + 1) % 65536,
              !.sq_tail = (@ + 2) % q.size]

\* QueuePair::submit: stamp the command id, write the entry at sq_tail,
\* advance sq_tail modulo size.
Submit(q) ==
    [q EXCEPT !.sq_buf[q.sq_tail] = q.next_cid,
              !.next_cid = (@ + 1) % 65536,
              !.sq_tail = (@ + 1) % q.size]

\* The write of sq_tail to the submission tail doorbell.
RingSq(q) == [q EXCEPT !.sq_doorbell = q.sq_tail, !.rung = @ + 1]

\* Commands the controller can still fetch: from its head to the doorbell.
Pending(q) == (q.sq_doorbell - q.sq_head + q.size) % q.size

\* The controller fetches the command at its head and posts its completion
\* with the given status.
Complete(q, status) ==
    [q EXCEPT !.cq_buf[q.tail] = CidStatus(q.sq_buf[q.sq_head], status, q.lap_phase),
              !.tail = (@ + 1) % q.size,
              !.lap_phase = IF (q.tail + 1) % q.size = 0 THEN ~@ ELSE @,
              !.sq_head = (@ + 1) % q.size]

\* The driver's poll of the pair: [some, status, q].
PollPair(q) ==
    LET r == PollCompletion(q)
    IN  [some |-> r.some, status |-> r.status,
         q |-> [q EXCEPT !.cq_head = r.cq_head, !.cq_phase = r.cq_phase,
                         !.taken = IF r.some THEN @ + 1 ELSE @]]

\* NvmeError values and Ok(()).
Ok == [ok |-> TRUE, err |-> "none", status |-> 0]
Err(e) == [ok |-> FALSE, err |-> e, status |-> 0]
CommandFailed(status) == [ok |-> FALSE, err |-> "CommandFailed", status |-> status]

\* classify_status
ClassifyStatus(status) ==
    LET sct == (status \div 512) % 8
        sc == (status \div 2) % 256
    IN  IF status = 0 THEN Ok
        ELSE IF sct = 0
        THEN IF sc = 0 THEN Ok
             ELSE IF sc = 128 THEN Err("MediaError")
             ELSE CommandFailed(status)
        ELSE IF sct = 2 THEN Err("MediaError")
        ELSE CommandFailed(status)

\* What read_blocks, write_blocks and flush make of the status that
\* poll_completion handed them.
IoResult(status) == IF status # 0 THEN CommandFailed(status) ELSE Ok

\* build_prp(buf, transfer_size) with build_prp_contiguous: [ok, prp1, prp2,
\* list, written, p]. ok is FALSE when the expect on the list page's allocation
\* panics. list[i] is the value written by iteration i of the loop, at
\* list_ptr.add(i - 1); written is where the entries land, as page and byte
\* offset: entry k of the list is 8 * k bytes from the start of the list page,
\* which is in the page after it from entry 512 on. The list page is
\* forgotten, never dropped: p stays without it.
BuildPrp(p, base, transfer_size) ==
    LET num_pages == CeilDiv(transfer_size, PAGE_SIZE)
        r == DmaAlloc(p, PAGE_SIZE)
    IN  IF transfer_size <= PAGE_SIZE
        THEN [ok |-> TRUE, prp1 |-> base, prp2 |-> Addr(0, 0), list |-> <<>>,
              written |-> {}, p |-> p]
        ELSE IF transfer_size <= 2 * PAGE_SIZE
        THEN [ok |-> TRUE, prp1 |-> base, prp2 |-> Addr(base.page + 1, base.off),
              list |-> <<>>, written |-> {}, p |-> p]
        ELSE IF ~r.ok
        THEN [ok |-> FALSE, prp1 |-> base, prp2 |-> Addr(0, 0), list |-> <<>>,
              written |-> {}, p |-> p]
        ELSE [ok |-> TRUE, prp1 |-> base, prp2 |-> Addr(r.page, 0),
              list |-> [i \in 1..(num_pages - 1) |-> Addr(base.page + i, base.off)],
              written |-> {Addr(r.page + (k * PRP_ENTRY_SIZE) \div PAGE_SIZE,
                                (k * PRP_ENTRY_SIZE) % PAGE_SIZE) :
                             k \in 0..(num_pages - 2)},
              p |-> r.p]

\* CSTS polls wait_for_ready makes per 500 ms unit of CAP.TO.
SpinsPer500ms == 2

\* max_spins of wait_for_ready
MaxSpins(d) == d.timeout_500ms * SpinsPer500ms

\* NvmeDriver as new builds it, before init_controller: no admin queue, no
\* I/O queue, no namespace. step is the position in init_controller, dma the
\* page of the Identify buffer, issued what the controller was asked so far,
\* polls the CSTS reads of the wait in progress.
NewDriver ==
    [step |-> "new", busy |-> FALSE, timeout_500ms |-> 0, max_queue_entries |-> 0,
     polls |-> 0, admin |-> NoQueue, io |-> NoQueue, io_queue |-> FALSE,
     ns_info |-> FALSE, dma |-> -1, issued |-> <<>>, result |-> Err("none"),
     buf |-> [pages |-> 0], ios |-> 0]

\* An error leaves init_controller and new: the driver is dropped, and with it
\* its queues and the buffer of the command in progress.
Fail(d, p, e) ==
    LET p1 == IF d.dma # -1 THEN DmaDrop(p, d.dma, PAGE_SIZE) ELSE p
        gone(q, pp) == IF q = NoQueue THEN pp
                       ELSE DmaDrop(DmaDrop(pp, q.sq_page, q.size * SQ_ENTRY_SIZE),
                                    q.cq_page, q.size * CQ_ENTRY_SIZE)
    IN  [d |-> [d EXCEPT !.step = "failed", !.busy = FALSE, !.result = e,
                         !.admin = NoQueue, !.io = NoQueue, !.io_queue = FALSE,
                         !.dma = -1],
         p |-> gone(d.io, gone(d.admin, p1))]

\* admin_submit_wait up to its loop: submit on the admin queue and ring its
\* tail doorbell.
AdminSubmit(d, name) ==
    [d EXCEPT !.admin = RingSq(Submit(d.admin)), !.busy = TRUE, !.step = name,
              !.issued = Append(@, name)]

\* One iteration of wait_for_ready for the CSTS value read: "ok" when RDY is
\* the target, else "fatal" when CFS is set, else "spin".
WaitForReady(target, rdy, cfs) ==
    IF rdy = target THEN "ok" ELSE IF cfs THEN "fatal" ELSE "spin"

\* init_controller with Create I/O SQ ahead of Create I/O CQ.
AfterAdmin_SqFirst(step) ==
    CASE step = "identify_controller" -> "create_io_sq"
      [] step = "create_io_sq" -> "create_io_cq"
      [] step = "create_io_cq" -> "identify_namespace"
      [] OTHER -> "ready"

\* The step that follows a successful admin command in init_controller and
\* create_io_queues.
AfterAdmin(step) ==
    CASE step = "identify_controller" -> "create_io_cq"
      [] step = "create_io_cq" -> "create_io_sq"
      [] step = "create_io_sq" -> "identify_namespace"
      [] OTHER -> "ready"

\* identify_controller and identify_namespace up to their wait: the Identify
\* buffer, then the command.
Identify(d, p, name) ==
    LET b == DmaAlloc(p, PAGE_SIZE)
    IN  IF ~b.ok THEN Fail(d, p, Err("OutOfMemory"))
        ELSE [d |-> AdminSubmit([d EXCEPT !.dma = b.page], name), p |-> b.p]

\* The driver after the completion of the admin command of d.step, taken
\* with the given status: [d, p].
AdminDone(d, p, status) ==
    LET next == AfterAdmin(d.step)
        p1 == IF d.dma # -1 THEN DmaDrop(p, d.dma, PAGE_SIZE) ELSE p
        d1 == [d EXCEPT !.busy = FALSE, !.dma = -1]
        size == Min({IO_QUEUE_MAX, d.max_queue_entries})
        qp == QueuePairNew(p1, size)
    IN  IF status # 0 THEN Fail(d, p, CommandFailed(status))
        ELSE IF d.step = "identify_controller"
        THEN IF ~qp.ok THEN Fail(d1, qp.p, Err("OutOfMemory"))
             ELSE [d |-> AdminSubmit([d1 EXCEPT !.io = qp.q], next), p |-> qp.p]
        ELSE IF next = "identify_namespace"
        THEN Identify([d1 EXCEPT !.io_queue = TRUE], p1, next)
        ELSE IF next = "ready"
        THEN [d |-> [d1 EXCEPT !.ns_info = TRUE, !.step = "ready", !.result = Ok],
              p |-> p1]
        ELSE [d |-> AdminSubmit(d1, next), p |-> p1]

\* The driver after wait_for_ready returned Ok: after the wait for RDY = 0 the
\* admin queues are allocated and programmed and CC.EN = 1 is written; after
\* the wait for RDY = 1 Identify Controller is sent.
WaitDone(d, p) ==
    LET aq == QueuePairNew(p, AQ_SIZE)
    IN  IF d.step = "wait_disabled"
        THEN IF ~aq.ok THEN Fail(d, aq.p, Err("OutOfMemory"))
             ELSE [d |-> [d EXCEPT !.admin = aq.q, !.step = "wait_enabled", !.polls = 0,
                                   !.issued = @ \o <<"admin_queues", "enable">>],
                   p |-> aq.p]
        ELSE Identify(d, p, "identify_controller")

\* No heap, no driver.
NoHeap == [hhdm |-> 0]
NoDriver == [step |-> "none"]

\* A caller's handle slot: the HeavenFile it got from open and the name it opened.
Closed == [open |-> FALSE, name |-> <<>>, file |-> NoFile]
Handles == 1..MaxHandles

\* The three mutexes of the storage stack, in the declared order.
Locks == <<"nvme", "allocator", "file_table">>
Rank(l) == CHOOSE i \in 1..Len(Locks) : Locks[i] = l

Threads == 1..MaxThreads
NoOwner == [i \in 1..Len(Locks) |-> 0]
Idle == [op |-> "idle", pc |-> 0]

NoCall == [op |-> "none"]

\* SHM = None (the lock array kept at its default for the next shm_map).
NoShm == [some |-> FALSE, regions |-> 0,
          locks |-> [i \in 0..(SQLITE_SHM_NLOCK - 1) |-> DefaultLock]]

TypeOK ==
    /\ alloc.free_count \in Nat
    /\ \A h \in Handles : files[h].open \in BOOLEAN
    /\ panicked \in BOOLEAN

\* init_storage on a blank namespace: format, FileTable::new, HeavenVfs::new.
Init ==
    /\ alloc = Formatted
    /\ ft = NewTable
    /\ files = [h \in Handles |-> Closed]
    /\ dev = BlankDevice
    /\ media = BlankDevice
    /\ shm = NoShm
    /\ call = NoCall
    /\ rc = SQLITE_OK
    /\ out = <<>>
    /\ panicked = FALSE
    /\ owner = NoOwner
    /\ queue = NoQueue
    /\ phys = PhysNew
    /\ heap = NoHeap
    /\ drv = NoDriver
    /\ at = [t \in Threads |-> Idle]

\* A failed debug_assert! halts a debug build and is compiled out of a release
\* build: both continuations of a call whose result has dbg set.
Builds(dbg) == IF dbg THEN {"debug", "release"} ELSE {"release"}

Halt ==
    /\ panicked' = TRUE
    /\ UNCHANGED <<phys, heap, drv, queue, owner, at, alloc, ft, files, dev, media, shm, call, rc, out>>

\* xOpen into the caller's slot h.
Open(h, name, create) ==
    /\ ~panicked
    /\ ~files[h].open
    /\ \E r \in {OpenResult(alloc, ft, name, create)} :
           /\ alloc' = r.a
           /\ ft' = r.t
           /\ files' = IF r.rc = SQLITE_OK
                       THEN [files EXCEPT ![h] = [open |-> TRUE, name |-> name, file |-> r.file]]
                       ELSE files
           /\ rc' = r.rc
    /\ call' = [op |-> "open", h |-> h, name |-> name, create |-> create]
    /\ out' = <<>>
    /\ UNCHANGED <<phys, heap, drv, queue, owner, at, dev, media, shm, panicked>>

\* xClose of the handle in slot h.
Close(h) ==
    /\ ~panicked
    /\ files[h].open
    /\ \E r \in {CloseResult(files[h].file, ft)} :
           /\ ft' = r.t
           /\ rc' = r.rc
    /\ files' = [files EXCEPT ![h] = Closed]
    /\ call' = [op |-> "close", h |-> h]
    /\ out' = <<>>
    /\ UNCHANGED <<phys, heap, drv, queue, owner, at, alloc, dev, media, shm, panicked>>

\* The caller's buffer before a read: amount bytes of 0xAA.
Buffer(amount) == [i \in 1..amount |-> 170]

\* xRead of amount bytes at offset through the handle in slot h.
Read(h, amount, offset, fault) ==
    /\ ~panicked
    /\ files[h].open
    /\ \E r \in {ReadResult(files[h].file, dev.data, Buffer(amount), offset, fault)} :
           \E build \in Builds(r.dbg) :
             IF build = "debug" THEN Halt
             ELSE /\ out' = r.buf
                  /\ rc' = r.rc
                  /\ call' = [op |-> "read", h |-> h, amount |-> amount, offset |-> offset,
                           fault |-> fault]
                  /\ UNCHANGED <<phys, heap, drv, queue, owner, at, alloc, ft, files, dev, media, shm, panicked>>

\* xWrite of data at offset through the handle in slot h.
Write(h, data, offset, fault) ==
    /\ ~panicked
    /\ files[h].open
    /\ \E r \in {WriteResult(files[h].file, alloc, ft, dev, media, data, offset, fault)} :
           \E build \in Builds(r.dbg) :
             IF build = "debug" THEN Halt
             ELSE /\ alloc' = r.a
                  /\ ft' = r.t
                  /\ files' = [files EXCEPT ![h].file = r.file]
                  /\ dev' = r.dev
                  /\ media' = r.media
                  /\ rc' = r.rc
                  /\ call' = [op |-> "write", h |-> h, data |-> data, offset |-> offset,
                              fault |-> fault, pre |-> files[h].file]
                  /\ out' = <<>>
                  /\ UNCHANGED <<phys, heap, drv, queue, owner, at, shm, panicked>>

\* xSync through the handle in slot h.
Sync(h, fault) ==
    /\ ~panicked
    /\ files[h].open
    /\ \E r \in {SyncResult(files[h].file, alloc, ft, dev, media, fault)} :
           /\ alloc' = r.a
           /\ ft' = r.t
           /\ dev' = r.dev
           /\ media' = r.media
           /\ rc' = r.rc
    /\ call' = [op |-> "sync", h |-> h, fault |-> fault]
    /\ out' = <<>>
    /\ UNCHANGED <<phys, heap, drv, queue, owner, at, files, shm, panicked>>

\* xTruncate to size through the handle in slot h.
Truncate(h, size) ==
    /\ ~panicked
    /\ files[h].open
    /\ \E r \in {TruncateResult(files[h].file, alloc, ft, size)} :
           \E build \in Builds(r.dbg) :
             IF build = "debug" THEN Halt
             ELSE /\ alloc' = r.a
                  /\ ft' = r.t
                  /\ files' = [files EXCEPT ![h].file = r.file]
                  /\ rc' = r.rc
                  /\ call' = [op |-> "truncate", h |-> h, size |-> size,
                              pre |-> files[h].file]
                  /\ out' = <<>>
                  /\ UNCHANGED <<phys, heap, drv, queue, owner, at, dev, media, shm, panicked>>

\* xDelete of name.
Delete(name) ==
    /\ ~panicked
    /\ \E r \in {DeleteResult(alloc, ft, name)} :
           \E build \in Builds(r.dbg) :
             IF build = "debug" THEN Halt
             ELSE /\ alloc' = r.a
                  /\ ft' = r.t
                  /\ rc' = r.rc
                  /\ call' = [op |-> "delete", name |-> name]
                  /\ out' = <<>>
                  /\ UNCHANGED <<phys, heap, drv, queue, owner, at, files, dev, media, shm, panicked>>

\* xShmMap of region: get_or_insert_with, then one allocation per missing region.
ShmMap(region, nomem) ==
    /\ ~panicked
    /\ LET state == [shm EXCEPT !.some = TRUE]
       IN  IF state.regions <= region /\ nomem
           THEN shm' = state /\ rc' = SQLITE_IOERR_NOMEM
           ELSE /\ shm' = [state EXCEPT !.regions = IF @ <= region THEN region + 1 ELSE @]
                /\ rc' = SQLITE_OK
    /\ call' = [op |-> "shm_map", region |-> region]
    /\ out' = <<>>
    /\ UNCHANGED <<phys, heap, drv, queue, owner, at, alloc, ft, files, dev, media, panicked>>

\* shared_count stays within MaxShared of 0, counting up or wrapped below 0.
SharedInBound(locks) ==
    \A i \in DOMAIN locks :
        locks[i].shared_count <= MaxShared /\ locks[i].shared_count >= -MaxShared

\* xShmLock(offset, n, flags).
ShmLock(offset, n, is_lock, is_exclusive) ==
    /\ ~panicked
    /\ IF ~shm.some
       THEN /\ rc' = SQLITE_ERROR
            /\ call' = [op |-> "shm_lock", offset |-> offset, n |-> n,
                        is_lock |-> is_lock, is_exclusive |-> is_exclusive]
            /\ out' = <<>>
            /\ UNCHANGED <<phys, heap, drv, queue, owner, at, alloc, ft, files, dev, media, shm, panicked>>
       ELSE \E r \in {ShmLockResult(shm.locks, offset, n, is_lock, is_exclusive)} :
                /\ SharedInBound(r.locks)
                /\ \E build \in Builds(r.dbg) :
                     IF build = "debug" THEN Halt
                     ELSE /\ shm' = [shm EXCEPT !.locks = r.locks]
                          /\ rc' = r.rc
                          /\ call' = [op |-> "shm_lock", offset |-> offset, n |-> n,
                                      is_lock |-> is_lock, is_exclusive |-> is_exclusive]
                          /\ out' = <<>>
                          /\ UNCHANGED <<phys, heap, drv, queue, owner, at, alloc, ft, files, dev, media, panicked>>

\* xShmUnmap(delete).
ShmUnmap(delete) ==
    /\ ~panicked
    /\ shm' = IF delete THEN NoShm ELSE shm
    /\ rc' = SQLITE_OK
    /\ call' = [op |-> "shm_unmap", delete |-> delete]
    /\ out' = <<>>
    /\ UNCHANGED <<phys, heap, drv, queue, owner, at, alloc, ft, files, dev, media, panicked>>

\* BlockAllocator::alloc(count) called directly.
Alloc(count) ==
    /\ ~panicked
    /\ \E r \in {AllocBlocks(alloc, count)} :
           /\ alloc' = r.a
           /\ rc' = IF r.ok THEN "Ok" ELSE r.err
           /\ call' = [op |-> "alloc", count |-> count, start |-> r.start]
    /\ out' = <<>>
    /\ UNCHANGED <<phys, heap, drv, queue, owner, at, ft, files, dev, media, shm, panicked>>

\* BlockAllocator::free(start, count) called directly, on blocks of the valid range.
Free(start, count) ==
    /\ ~panicked
    /\ start + count <= alloc.data_block_count
    /\ alloc.free_count + count <= alloc.data_block_count + MaxDrift
    /\ \E build \in Builds(FreeOfClearBit(alloc, start, count)) :
         IF build = "debug" THEN Halt
         ELSE /\ alloc' = FreeBlocks(alloc, start, count)
              /\ rc' = "Ok"
              /\ call' = [op |-> "free", start |-> start, count |-> count,
                           allocated |-> ~FreeOfClearBit(alloc, start, count)]
              /\ out' = <<>>
              /\ UNCHANGED <<phys, heap, drv, queue, owner, at, ft, files, dev, media, shm, panicked>>

\* What the namespace may hold after a power loss: each cached write (a bitmap
\* block, the file-table block, the data blocks written) reached the media or not.
CrashImages(dv, md) ==
    {[sb |-> dv.sb,
      bitmap |-> {i \in dv.bitmap : kept[i \div BitsPerBlock]}
                     \cup {i \in md.bitmap : ~kept[i \div BitsPerBlock]},
      table |-> t, data |-> d] :
        kept \in [0..(Formatted.bitmap_on_disk_blocks - 1) -> BOOLEAN],
        t \in {dv.table, md.table},
        d \in {dv.data, md.data}}

\* Power loss, then boot: init_storage loads the allocator and the file table.
PowerLoss ==
    /\ \E image \in CrashImages(dev, media) :
         /\ dev' = image
         /\ media' = image
         /\ alloc' = LoadAllocator(alloc, image)
         /\ ft' = LoadTable(image)
    /\ files' = [h \in Handles |-> Closed]
    /\ shm' = NoShm
    /\ call' = [op |-> "power_loss"]
    /\ rc' = SQLITE_OK
    /\ out' = <<>>
    /\ panicked' = FALSE
    /\ owner' = NoOwner
    /\ queue' = NoQueue
    /\ UNCHANGED <<phys, heap, drv>>
    /\ at' = [t \in Threads |-> Idle]

\* ------------------------------------------------------------ the inputs

\* "a" and "b"
Names == {<<97>>, <<98>>}
MainName == <<97>>

Bytes(len, base) == [i \in 1..len |-> base + i]

\* The bytes of the initial extent.
EndOfInitial == INITIAL_ALLOC_BLOCKS * BlockSize

\* The writes made, as <<offset, data>>: a whole block at 0 (aligned), one byte
\* inside the first block (read-modify-write), and a block's worth of bytes
\* that starts in the last block of the initial extent and ends past it.
AlignedWrite == <<0, Bytes(BlockSize, 20)>>
ByteWrite == <<1, Bytes(1, 10)>>
GrowingWrite == <<EndOfInitial - 1, Bytes(BlockSize, 30)>>
\* No byte at all, at the start of the file.
EmptyWrite == <<0, <<>>>>
Writes == {AlignedWrite, ByteWrite, GrowingWrite, EmptyWrite}
\* A write of one block of zero bytes at the start of the file.
ZeroWrite == <<0, [i \in 1..BlockSize |-> 0]>>

\* The reads made, as <<offset, amount>>.
Reads == {<<0, BlockSize + 1>>, <<EndOfInitial - 1, BlockSize + 1>>}

\* A size that gives back the last block of the initial extent.
ShrinkSize == EndOfInitial - BlockSize - 1

Fault(pt, k) == [pt |-> pt, k |-> k]

\* The (offset, n) ranges passed to shm_lock: single slots, a run of two, and a
\* run that starts inside the 8 slots and ends past them.
ShmRanges == {<<0, 1>>, <<1, 1>>, <<0, 2>>, <<6, 3>>, <<7, 1>>}

\* ------------------------------------------------------ the specifications

\* The caller's first free handle slot (0 when none is free).
FirstFree ==
    LET free == {h \in Handles : ~files[h].open}
    IN  IF free = {} THEN 0 ELSE Min(free)

\* No open handle is on name.
NotOpen(name) == \A h \in Handles : ~(files[h].open /\ files[h].name = name)

\* The kernel as built: one SQLite connection (sqlite/mod.rs DB) working on its
\* database file, with at most one handle on it, deleting it only when closed.
Next ==
    \/ \E h \in Handles, create \in BOOLEAN :
         NotOpen(MainName) /\ h = FirstFree /\ Open(h, MainName, create)
    \/ \E h \in Handles : Close(h)
    \/ \E h \in Handles, r \in Reads : Read(h, r[2], r[1], NoFault)
    \/ \E h \in Handles, w \in Writes : Write(h, w[2], w[1], NoFault)
    \/ \E h \in Handles, fault \in {NoFault, Fault("flush", 0)} : Sync(h, fault)
    \/ \E h \in Handles : Truncate(h, ShrinkSize)
    \/ NotOpen(MainName) /\ Delete(MainName)

Spec == Init /\ [][Next]_vars

\* free_count is followed up to MaxDrift above the number of data blocks.
DriftInBound(a) == a.free_count <= a.data_block_count + MaxDrift

\* Any caller of HeavenVfs: any number of handles on a name, delete at any time.
NextAny ==
    \/ \E h \in Handles, name \in Names, create \in BOOLEAN : Open(h, name, create)
    \/ \E h \in Handles : Close(h)
    \/ \E h \in Handles : Write(h, ZeroWrite[2], ZeroWrite[1], NoFault) /\ DriftInBound(alloc')
    \/ \E h \in Handles : Truncate(h, 0) /\ DriftInBound(alloc')
    \/ \E name \in Names : NotOpen(name) /\ Delete(name) /\ DriftInBound(alloc')
SpecAny == Init /\ [][NextAny]_vars

\* The connection of Spec on two files, with power losses.
NextCrash ==
    \/ \E h \in Handles, name \in Names :
         NotOpen(name) /\ h = FirstFree /\ Open(h, name, TRUE)
    \/ \E h \in Handles : Close(h)
    \/ \E h \in Handles : Write(h, GrowingWrite[2], GrowingWrite[1], NoFault)
    \/ \E h \in Handles : Sync(h, NoFault)
    \/ PowerLoss

SpecCrash == Init /\ [][NextCrash]_vars

\* The allocator alone, as storage/tests.rs drives it.
InitAlloc ==
    /\ alloc = FormatAllocator(AllocTotalBlocks, BlockSize)
    /\ ft = NewTable
    /\ files = [h \in Handles |-> Closed]
    /\ dev = BlankDevice
    /\ media = BlankDevice
    /\ shm = NoShm
    /\ call = NoCall
    /\ rc = "Ok"
    /\ out = <<>>
    /\ panicked = FALSE
    /\ owner = NoOwner
    /\ queue = NoQueue
    /\ phys = PhysNew
    /\ heap = NoHeap
    /\ drv = NoDriver
    /\ at = [t \in Threads |-> Idle]

NextAlloc ==
    \/ \E count \in 0..MaxCount : Alloc(count)
    \/ \E start \in 0..(alloc.data_block_count - 1), count \in 1..MaxCount : Free(start, count)

SpecAlloc == InitAlloc /\ [][NextAlloc]_vars

\* The WAL shared-memory calls alone.
NextShm ==
    \/ \E region \in {0, 1}, nomem \in BOOLEAN : ShmMap(region, nomem)
    \/ \E range \in ShmRanges, is_lock \in BOOLEAN, is_exclusive \in BOOLEAN :
         ShmLock(range[1], range[2], is_lock, is_exclusive)
    \/ \E delete \in BOOLEAN : ShmUnmap(delete)

SpecShm == Init /\ [][NextShm]_vars

\* The points at which the device or the DMA allocator may fail a sync.
SyncFaults ==
    {NoFault, Fault("bitmap_nomem", 0), Fault("table_nomem", 0),
     Fault("table_write", 0), Fault("flush", 0)}
        \cup {Fault("bitmap_write", k) : k \in 0..(Formatted.bitmap_on_disk_blocks - 1)}

\* One file, written, grown and synced, with a fault at every point of sync.
NextSync ==
    \/ \E h \in Handles :
         NotOpen(MainName) /\ h = FirstFree /\ Open(h, MainName, TRUE)
    \/ \E h \in Handles : Close(h)
    \/ \E h \in Handles, w \in {AlignedWrite, GrowingWrite} : Write(h, w[2], w[1], NoFault)
    \/ \E h \in Handles, fault \in SyncFaults : Sync(h, fault)
    \/ NotOpen(MainName) /\ Delete(MainName)

SpecSync == Init /\ [][NextSync]_vars

\* The points at which a relocating write may fail before it moves the file:
\* the DMA allocation, the read or the write of a copied block, the NVMe Flush.
RelocFaults ==
    {Fault("reloc_nomem", 0), Fault("reloc_flush", 0)}
        \cup {Fault(pt, k) : pt \in {"copy_read", "copy_write"},
                             k \in {0, INITIAL_ALLOC_BLOCKS - 1}}

\* Two files, written and grown, with a fault at every point of the relocation;
\* with both files created the allocator has no run left for a grown file.
NextReloc ==
    \/ \E h \in Handles, name \in Names :
         NotOpen(name) /\ h = FirstFree /\ Open(h, name, TRUE)
    \/ \E h \in Handles : Close(h)
    \/ \E h \in Handles : Write(h, AlignedWrite[2], AlignedWrite[1], NoFault)
    \/ \E h \in Handles, fault \in RelocFaults \cup {NoFault} :
         Write(h, GrowingWrite[2], GrowingWrite[1], fault)

SpecReloc == Init /\ [][NextReloc]_vars

\* A name of MAX_NAME_LEN bytes, one more than an entry stores.
LongName == [i \in 1..MAX_NAME_LEN |-> 97]

\* The names callers open and delete: three short ones and the long one.
OpenNames == Names \cup {<<99>>, LongName}

\* Any caller opening, writing, closing and deleting files of any of the names.
NextOpen ==
    \/ \E h \in Handles, name \in OpenNames, create \in BOOLEAN : Open(h, name, create)
    \/ \E h \in Handles : Close(h)
    \/ \E h \in Handles : Write(h, AlignedWrite[2], AlignedWrite[1], NoFault)
    \/ \E name \in OpenNames : NotOpen(name) /\ Delete(name)

SpecOpen == Init /\ [][NextOpen]_vars

\* A block of zeros written as the file's second block.
SecondBlockWrite == <<BlockSize, [i \in 1..BlockSize |-> 0]>>

\* Two callers working on one file, each through its own handle: the first
\* writes, the second truncates; both open, sync and close.
NextShared ==
    \/ \E h \in Handles, create \in BOOLEAN : Open(h, MainName, create)
    \/ \E h \in Handles : Close(h)
    \/ Write(1, SecondBlockWrite[2], SecondBlockWrite[1], NoFault) /\ DriftInBound(alloc')
    \/ Truncate(MaxHandles, 0) /\ DriftInBound(alloc')
    \/ \E h \in Handles : Sync(h, NoFault)

SpecShared == Init /\ [][NextShared]_vars

\* One step of an operation on a mutex: lock() or the guard's drop.
Acq(l) == [k |-> "acq", l |-> l]
Rel(l) == [k |-> "rel", l |-> l]

\* The file table locked before the allocator.
LockProgram_Reversed(op) ==
    <<Acq("file_table"), Acq("allocator"), Rel("allocator"), Rel("file_table")>>

\* The lock() calls of each public operation of HeavenVfs and the drops of
\* their guards (explicit, or at the end of the scope in reverse order of
\* declaration), in program order.  "write_grow" is a write that relocates.
LockProgram(op) ==
    CASE op \in {"open", "truncate", "delete"} ->
           <<Acq("allocator"), Acq("file_table"), Rel("file_table"), Rel("allocator")>>
      [] op \in {"close", "access"} ->
           <<Acq("file_table"), Rel("file_table")>>
      [] op \in {"read", "write"} ->
           <<Acq("nvme"), Rel("nvme")>>
      [] op = "write_grow" ->
           <<Acq("nvme"), Acq("allocator"), Acq("file_table"), Rel("file_table"),
             Rel("allocator"), Rel("nvme"), Acq("nvme"), Rel("nvme")>>
      [] op = "sync" ->
           <<Acq("nvme"), Acq("allocator"), Acq("file_table"),
             Rel("file_table"), Rel("allocator"), Rel("nvme")>>

Operations ==
    {"open", "close", "read", "write", "write_grow", "sync", "truncate", "delete", "access"}

\* The step a caller is at.
Instr(a) == LockProgram(a.op)[a.pc]

\* The caller's position after a step: the next one, or the operation returned.
Advance(a) == IF a.pc = Len(LockProgram(a.op)) THEN Idle ELSE [a EXCEPT !.pc = @ + 1]

\* Caller t enters an operation.
Begin(t, op) ==
    /\ at[t] = Idle
    /\ at' = [at EXCEPT ![t] = [op |-> op, pc |-> 1]]
    /\ UNCHANGED <<phys, heap, drv, queue, owner, alloc, ft, files, dev, media, shm, call, rc, out, panicked>>

\* Caller t's lock() returns: spin::Mutex grants the mutex when no one holds it.
Acquire(t) ==
    /\ at[t] # Idle
    /\ Instr(at[t]).k = "acq"
    /\ owner[Rank(Instr(at[t]).l)] = 0
    /\ owner' = [owner EXCEPT ![Rank(Instr(at[t]).l)] = t]
    /\ at' = [at EXCEPT ![t] = Advance(@)]
    /\ UNCHANGED <<phys, heap, drv, queue, alloc, ft, files, dev, media, shm, call, rc, out, panicked>>

\* Caller t drops a guard.
Release(t) ==
    /\ at[t] # Idle
    /\ Instr(at[t]).k = "rel"
    /\ owner' = [owner EXCEPT ![Rank(Instr(at[t]).l)] = 0]
    /\ at' = [at EXCEPT ![t] = Advance(@)]
    /\ UNCHANGED <<phys, heap, drv, queue, alloc, ft, files, dev, media, shm, call, rc, out, panicked>>

\* Caller t returns early (an error path): every guard it holds is dropped.
Return(t) ==
    /\ at[t] # Idle
    /\ owner' = [i \in 1..Len(Locks) |-> IF owner[i] = t THEN 0 ELSE owner[i]]
    /\ at' = [at EXCEPT ![t] = Idle]
    /\ UNCHANGED <<phys, heap, drv, queue, alloc, ft, files, dev, media, shm, call, rc, out, panicked>>

\* Concurrent callers of the VFS, as far as the mutexes go.
NextLocks ==
    \/ \E t \in Threads, op \in Operations : Begin(t, op)
    \/ \E t \in Threads : Acquire(t)
    \/ \E t \in Threads : Release(t)
    \/ \E t \in Threads : Return(t)

SpecLocks == Init /\ [][NextLocks]_vars

\* The points at which a read may fail: the device's read command, the DMA buffer.
ReadFaults == {NoFault, Fault("read", 0), Fault("read_nomem", 0)}

\* The connection of Spec reading its file from a device that may fail.
NextRead ==
    \/ \E h \in Handles : NotOpen(MainName) /\ h = FirstFree /\ Open(h, MainName, TRUE)
    \/ \E h \in Handles : Close(h)
    \/ \E h \in Handles, w \in {AlignedWrite, ByteWrite, GrowingWrite} :
         Write(h, w[2], w[1], NoFault)
    \/ \E h \in Handles, r \in Reads \cup {<<0, 1>>, <<1, BlockSize>>}, fault \in ReadFaults :
         Read(h, r[2], r[1], fault)

SpecRead == Init /\ [][NextRead]_vars

\* Sizes a file is truncated to: nothing, one byte, one block, and the initial
\* extent less its last block.
TruncSizes == {0, 1, BlockSize, ShrinkSize}

\* The connection of Spec truncating its file to any of the sizes.
NextTrunc ==
    \/ \E h \in Handles : NotOpen(MainName) /\ h = FirstFree /\ Open(h, MainName, TRUE)
    \/ \E h \in Handles : Close(h)
    \/ \E h \in Handles, w \in {AlignedWrite, ByteWrite} : Write(h, w[2], w[1], NoFault)
    \/ \E h \in Handles, size \in TruncSizes : Truncate(h, size)

SpecTrunc == Init /\ [][NextTrunc]_vars

\* An allocator whose bitmap has two words.
InitWord ==
    /\ alloc = FormatAllocator(WordTotalBlocks, BlockSize)
    /\ ft = NewTable
    /\ files = [h \in Handles |-> Closed]
    /\ dev = BlankDevice
    /\ media = BlankDevice
    /\ shm = NoShm
    /\ call = NoCall
    /\ rc = "Ok"
    /\ out = <<>>
    /\ panicked = FALSE
    /\ owner = NoOwner
    /\ queue = NoQueue
    /\ phys = PhysNew
    /\ heap = NoHeap
    /\ drv = NoDriver
    /\ at = [t \in Threads |-> Idle]

\* Run lengths asked for: a short run, a run that crosses the word boundary
\* behind 60 used blocks, and those 60.
WordCounts == {3, 10, WordBits - 4}

\* The ranges given back, as <<start, count>>.
WordFrees == {<<0, 3>>, <<WordBits - 4, 10>>}

\* BlockAllocator::alloc and free called directly on the two-word bitmap.
NextWord ==
    \/ \E count \in WordCounts : Alloc(count)
    \/ \E f \in WordFrees : Free(f[1], f[2])

SpecWord == InitWord /\ [][NextWord]_vars

\* The old extent freed right after the flush, before the metadata is updated.
RelocNext_FreeEarly(pc) ==
    CASE pc = "alloc" -> "copy"
      [] pc = "copy" -> "flush"
      [] pc = "flush" -> "free"
      [] pc = "free" -> "handle"
      [] pc = "handle" -> "entry"
      [] pc = "entry" -> "done"

\* The steps of the growth stage of HeavenVfs::write in program order.
RelocNext(pc) ==
    CASE pc = "alloc" -> "copy"
      [] pc = "copy" -> "flush"
      [] pc = "flush" -> "handle"
      [] pc = "handle" -> "entry"
      [] pc = "entry" -> "free"
      [] pc = "free" -> "done"

\* No relocation is under way (the write holds the NVME and allocator mutexes
\* throughout, so no other operation runs in between).
Quiet == IF call.op = "relocate" THEN call.pc = "done" ELSE TRUE

\* The write finds needed > file.block_count and allocates the new extent.
RelocAlloc(h, fault) ==
    /\ ~panicked /\ Quiet
    /\ files[h].open
    /\ HasEntry(ft, files[h].file.file_table_index)
    /\ LET file == files[h].file
           needed == file.block_count + 1
           r == AllocBlocks(alloc, needed)
           c == [op |-> "relocate", h |-> h, fault |-> fault, needed |-> needed,
                 old |-> file, old_start_block |-> file.start_lba - alloc.data_start_lba,
                 new_start_block |-> r.start, pc |-> "alloc"]
       IN  IF r.ok
           THEN alloc' = r.a /\ rc' = SQLITE_OK /\ call' = [c EXCEPT !.pc = RelocNext(@)]
           ELSE alloc' = alloc /\ rc' = SQLITE_FULL /\ call' = [c EXCEPT !.pc = "done"]
    /\ out' = <<>>
    /\ UNCHANGED <<phys, heap, drv, queue, owner, at, ft, files, dev, media, shm, panicked>>

\* An error return of the growth stage: the new extent is given back first.
RelocFail(code) ==
    /\ alloc' = FreeBlocks(alloc, call.new_start_block, call.needed)
    /\ rc' = code
    /\ call' = [call EXCEPT !.pc = "done"]

\* The copy loop: every old block read and written to the new extent.
RelocCopy ==
    /\ ~panicked
    /\ call.op = "relocate" /\ call.pc = "copy"
    /\ IF call.fault.pt = "reloc_nomem"
       THEN RelocFail(SQLITE_IOERR_NOMEM) /\ dev' = dev
       ELSE \E c \in {CopyLoop(dev.data, call.old.start_lba,
                               alloc.data_start_lba + call.new_start_block, 0,
                               call.old.block_count, call.fault)} :
                /\ dev' = [dev EXCEPT !.data = c.data]
                /\ IF c.rc # SQLITE_OK THEN RelocFail(c.rc)
                   ELSE /\ call' = [call EXCEPT !.pc = RelocNext(@)]
                        /\ UNCHANGED <<alloc, rc>>
    /\ UNCHANGED <<phys, heap, drv, queue, owner, at, ft, files, media, shm, out, panicked>>

\* nvme.flush(): the new copy is on the media.
RelocFlush ==
    /\ ~panicked
    /\ call.op = "relocate" /\ call.pc = "flush"
    /\ IF call.fault.pt = "reloc_flush"
       THEN RelocFail(SQLITE_IOERR_FSYNC) /\ media' = media
       ELSE /\ media' = dev
            /\ call' = [call EXCEPT !.pc = RelocNext(@)]
            /\ UNCHANGED <<alloc, rc>>
    /\ UNCHANGED <<phys, heap, drv, queue, owner, at, ft, files, dev, shm, out, panicked>>

\* file.start_lba and file.block_count are assigned.
RelocHandle ==
    /\ ~panicked
    /\ call.op = "relocate" /\ call.pc = "handle"
    /\ files' = [files EXCEPT ![call.h].file =
                    [@ EXCEPT !.start_lba = alloc.data_start_lba + call.new_start_block,
                              !.block_count = call.needed]]
    /\ call' = [call EXCEPT !.pc = RelocNext(@)]
    /\ UNCHANGED <<phys, heap, drv, queue, owner, at, alloc, ft, dev, media, shm, rc, out, panicked>>

\* The file-table entry's start_block and block_count are assigned.
RelocEntry ==
    /\ ~panicked
    /\ call.op = "relocate" /\ call.pc = "entry"
    /\ ft' = SetExtent(ft, call.old.file_table_index, call.new_start_block, call.needed)
    /\ call' = [call EXCEPT !.pc = RelocNext(@)]
    /\ UNCHANGED <<phys, heap, drv, queue, owner, at, alloc, files, dev, media, shm, rc, out, panicked>>

\* The old extent is freed.
RelocFree ==
    /\ ~panicked
    /\ call.op = "relocate" /\ call.pc = "free"
    /\ \E build \in Builds(FreeOfClearBit(alloc, call.old_start_block, call.old.block_count)) :
         IF build = "debug" THEN Halt
         ELSE /\ alloc' = FreeBlocks(alloc, call.old_start_block, call.old.block_count)
              /\ call' = [call EXCEPT !.pc = RelocNext(@)]
              /\ UNCHANGED <<phys, heap, drv, queue, owner, at, ft, files, dev, media, shm, rc, out, panicked>>

\* The connection of Spec growing its file, the growth stage taken step by step.
NextSteps ==
    \/ \E h \in Handles :
         Quiet /\ NotOpen(MainName) /\ h = FirstFree /\ Open(h, MainName, TRUE)
    \/ \E h \in Handles : Quiet /\ Close(h)
    \/ \E h \in Handles : Quiet /\ Write(h, AlignedWrite[2], AlignedWrite[1], NoFault)
    \/ \E h \in Handles, fault \in RelocFaults \cup {NoFault} : RelocAlloc(h, fault)
    \/ RelocCopy
    \/ RelocFlush
    \/ RelocHandle
    \/ RelocEntry
    \/ RelocFree

SpecSteps == Init /\ [][NextSteps]_vars

\* A device of FullTotalBlocks blocks: 59 data blocks, enough for a table of
\* MAX_ENTRIES one-block files and one more initial extent.
FullTotalBlocks == 65

InitFull ==
    /\ alloc = FormatAllocator(FullTotalBlocks, BlockSize)
    /\ ft = NewTable
    /\ files = [h \in Handles |-> Closed]
    /\ dev = FormatImage(FullTotalBlocks, BlockSize)
    /\ media = FormatImage(FullTotalBlocks, BlockSize)
    /\ shm = NoShm
    /\ call = NoCall
    /\ rc = SQLITE_OK
    /\ out = <<>>
    /\ panicked = FALSE
    /\ owner = NoOwner
    /\ queue = NoQueue
    /\ phys = PhysNew
    /\ heap = NoHeap
    /\ drv = NoDriver
    /\ at = [t \in Threads |-> Idle]

\* The one-byte name of the least number no in-use entry is named by.
FreshName(t) ==
    <<Min({n \in 0..MAX_ENTRIES : \A i \in InUse(t.entries) : t.entries[i].name # <<n>>})>>

\* A caller creating one file after another under a fresh name, truncating it
\* to nothing or not, closing it, and deleting the first file.
NextFull ==
    \/ \E create \in BOOLEAN : Open(1, FreshName(ft), create)
    \/ Open(1, <<0>>, FALSE)
    \/ Truncate(1, 0)
    \/ Close(1)
    \/ NotOpen(<<0>>) /\ Delete(<<0>>)

SpecFull == InitFull /\ [][NextFull]_vars

\* Two callers of HeavenVfs, one handle each, on files of two names: xDelete is
\* called whether or not a handle is open on the name.
NextDelete ==
    \/ \E h \in Handles, name \in Names, create \in BOOLEAN : Open(h, name, create)
    \/ \E h \in Handles : Close(h)
    \/ \E h \in Handles : Write(h, AlignedWrite[2], AlignedWrite[1], NoFault)
    \/ \E h \in Handles : Sync(h, NoFault)
    \/ \E name \in Names : Delete(name)

SpecDelete == Init /\ [][NextDelete]_vars

\* heaven_write: HeavenVfs::write on a copy of the handle kept in the
\* sqlite3_file, whose byte_length, block_count and start_lba are written back.
heaven_write(h, data, offset, fault) == Write(h, data, offset, fault)

\* heaven_truncate: HeavenVfs::truncate on a copy of the handle kept in the
\* sqlite3_file, of which byte_length alone is written back.
heaven_truncate(h, size) ==
    /\ ~panicked
    /\ files[h].open
    /\ \E r \in {TruncateResult(files[h].file, alloc, ft, size)} :
           \E build \in Builds(r.dbg) :
             IF build = "debug" THEN Halt
             ELSE /\ alloc' = r.a
                  /\ ft' = r.t
                  /\ files' = [files EXCEPT ![h].file.byte_length = r.file.byte_length]
                  /\ rc' = r.rc
                  /\ call' = [op |-> "truncate", h |-> h, size |-> size,
                              pre |-> files[h].file]
                  /\ out' = <<>>
                  /\ UNCHANGED <<phys, heap, drv, queue, owner, at, dev, media, shm, panicked>>

\* SQLite's one connection calling through the io-methods table of the bridge.
NextBridge ==
    \/ \E h \in Handles : NotOpen(MainName) /\ h = FirstFree /\ Open(h, MainName, TRUE)
    \/ \E h \in Handles : Close(h)
    \/ \E h \in Handles, w \in {AlignedWrite, ByteWrite} :
         heaven_write(h, w[2], w[1], NoFault) /\ DriftInBound(alloc')
    \/ \E h \in Handles, size \in TruncSizes :
         heaven_truncate(h, size) /\ DriftInBound(alloc')

SpecBridge == Init /\ [][NextBridge]_vars

\* Where BlockAllocator::load can fail on a formatted namespace: the DMA buffer
\* of the superblock (0) or of the bitmap (1), the read of LBA 0 (0) or of
\* bitmap block k - 1.
LoadFaults ==
    {Fault("load_nomem", k) : k \in {0, 1}}
        \cup {Fault("load_read", k) : k \in 0..Formatted.bitmap_on_disk_blocks}

\* BlockAllocator::load as init_storage sees it: Err where the fault strikes or
\* the superblock read from LBA 0 is not valid.
LoadFails(d, fault) == fault \in LoadFaults \/ ~d.sb.valid

\* init_storage on the namespace image d: [formatted, a, t, d]. The match on
\* the result of load has two arms, Ok and Err(_); format leaves the data
\* blocks as they are.
InitStorage(a, d, fault) ==
    IF ~LoadFails(d, fault)
    THEN [formatted |-> FALSE, a |-> LoadAllocator(a, d), t |-> LoadTable(d), d |-> d]
    ELSE [formatted |-> TRUE,
          a |-> FormatAllocator(TotalBlocks, BlockSize),
          t |-> NewTable,
          d |-> [FormatImage(TotalBlocks, BlockSize) EXCEPT !.data = d.data]]

\* A namespace never formatted: LBA 0 holds no superblock.
Unformatted == [BlankDevice EXCEPT !.sb.valid = FALSE]

\* The machine before its boot, on a blank or on a formatted namespace.
InitBoot ==
    /\ alloc = Formatted
    /\ ft = NewTable
    /\ files = [h \in Handles |-> Closed]
    /\ dev \in {Unformatted, BlankDevice}
    /\ media = dev
    /\ shm = NoShm
    /\ call = NoCall
    /\ rc = SQLITE_OK
    /\ out = <<>>
    /\ panicked = FALSE
    /\ owner = NoOwner
    /\ queue = NoQueue
    /\ phys = PhysNew
    /\ heap = NoHeap
    /\ drv = NoDriver
    /\ at = [t \in Threads |-> Idle]

Booted == call.op # "none"

\* Power off and on: init_storage on what the namespace holds.
Boot(fault) ==
    /\ \E image \in CrashImages(dev, media) :
         \E r \in {InitStorage(alloc, image, fault)} :
           /\ dev' = r.d
           /\ media' = r.d
           /\ alloc' = r.a
           /\ ft' = r.t
           /\ call' = [op |-> "init_storage", fault |-> fault, image |-> image,
                       formatted |-> r.formatted]
    /\ files' = [h \in Handles |-> Closed]
    /\ shm' = NoShm
    /\ rc' = SQLITE_OK
    /\ out' = <<>>
    /\ panicked' = FALSE
    /\ owner' = NoOwner
    /\ queue' = NoQueue
    /\ UNCHANGED <<phys, heap, drv>>
    /\ at' = [t \in Threads |-> Idle]

\* Boots, with the connection of Spec working on two files in between.
NextBoot ==
    \/ \E fault \in LoadFaults \cup {NoFault} : Boot(fault)
    \/ \E h \in Handles, name \in Names :
         Booted /\ NotOpen(name) /\ h = FirstFree /\ Open(h, name, TRUE)
    \/ \E h \in Handles : Booted /\ Close(h)
    \/ \E h \in Handles : Booted /\ Write(h, AlignedWrite[2], AlignedWrite[1], NoFault)
    \/ \E h \in Handles : Booted /\ Sync(h, NoFault)

SpecBoot == InitBoot /\ [][NextBoot]_vars

\* Queue sizes, completions posted in a run, and the status and command
\* identifier values the controller posts.
MaxQueueSize == 3
MaxPosted == 7
QueueSizes == 1..MaxQueueSize
Statuses == {0, 1, 32767}
Cids == {0, 32767}

InitQueue ==
    /\ alloc = Formatted
    /\ ft = NewTable
    /\ files = [h \in Handles |-> Closed]
    /\ dev = BlankDevice
    /\ media = BlankDevice
    /\ shm = NoShm
    /\ call = NoCall
    /\ rc = SQLITE_OK
    /\ out = <<>>
    /\ panicked = FALSE
    /\ owner = NoOwner
    /\ at = [t \in Threads |-> Idle]
    /\ queue \in {NewQueue(size) : size \in QueueSizes}
    /\ phys = PhysNew
    /\ heap = NoHeap
    /\ drv = NoDriver

\* The controller posts the next completion entry at its tail, with the phase
\* of its lap, never over an entry that has not been returned yet.
Post(cid, status) ==
    /\ Len(queue.posted) < MaxPosted
    /\ Len(queue.posted) - Len(queue.returned) < queue.size
    /\ queue' = [queue EXCEPT
                   !.cq_buf[queue.tail] = CidStatus(cid, status, queue.lap_phase),
                   !.tail = (@ + 1) % queue.size,
                   !.lap_phase = IF (queue.tail + 1) % queue.size = 0 THEN ~@ ELSE @,
                   !.posted = Append(@, status)]
    /\ call' = [op |-> "post", status |-> status]
    /\ UNCHANGED <<phys, heap, drv, owner, at, alloc, ft, files, dev, media, shm, rc, out,
                   panicked>>

\* The driver calls poll_completion.
Poll ==
    /\ LET r == PollCompletion(queue)
       IN  /\ queue' = [queue EXCEPT
                          !.cq_head = r.cq_head,
                          !.cq_phase = r.cq_phase,
                          !.returned = IF r.some THEN Append(@, r.status) ELSE @]
           /\ call' = [op |-> "poll", some |-> r.some, status |-> r.status]
    /\ UNCHANGED <<phys, heap, drv, owner, at, alloc, ft, files, dev, media, shm, rc, out,
                   panicked>>

NextQueue ==
    \/ \E cid \in Cids, status \in Statuses : Post(cid, status)
    \/ Poll

SpecQueue == InitQueue /\ [][NextQueue]_vars

\* The page allocator before its init, everything else as after boot.
InitPhys ==
    /\ alloc = Formatted
    /\ ft = NewTable
    /\ files = [h \in Handles |-> Closed]
    /\ dev = BlankDevice
    /\ media = BlankDevice
    /\ shm = NoShm
    /\ call = NoCall
    /\ rc = SQLITE_OK
    /\ out = <<>>
    /\ panicked = FALSE
    /\ owner = NoOwner
    /\ at = [t \in Threads |-> Idle]
    /\ queue = NoQueue
    /\ phys = PhysNew
    /\ heap = NoHeap
    /\ drv = NoDriver

\* PHYS_ALLOCATOR.init(regions)
PhysInitCall(regions) ==
    /\ phys' = PhysInit(phys, regions)
    /\ call' = [op |-> "phys_init", regions |-> regions]
    /\ UNCHANGED <<heap, drv, queue, owner, at, alloc, ft, files, dev, media, shm, rc, out,
                   panicked>>

\* PHYS_ALLOCATOR.mark_used(base, count)
PhysMarkUsed(base, count) ==
    /\ phys' = MarkUsed(phys, base.page, count)
    /\ call' = [op |-> "mark_used", base |-> base, count |-> count]
    /\ UNCHANGED <<heap, drv, queue, owner, at, alloc, ft, files, dev, media, shm, rc, out,
                   panicked>>

\* PHYS_ALLOCATOR.alloc_pages_contiguous(count, align)
PhysAlloc(count, align) ==
    /\ \E r \in {AllocPagesContiguous(phys, count, align)} :
         /\ phys' = r.p
         /\ call' = [op |-> "alloc_pages", count |-> count, align |-> align,
                     ok |-> r.ok, page |-> r.page]
    /\ UNCHANGED <<heap, drv, queue, owner, at, alloc, ft, files, dev, media, shm, rc, out,
                   panicked>>

\* PHYS_ALLOCATOR.free_pages(base, count)
PhysFree(base, count) ==
    /\ phys' = FreePages(phys, base.page, count)
    /\ call' = [op |-> "free_pages", base |-> base, count |-> count,
                was_free |-> \A i \in 0..(count - 1) : (base.page + i) \in phys.free]
    /\ UNCHANGED <<heap, drv, queue, owner, at, alloc, ft, files, dev, media, shm, rc, out,
                   panicked>>

\* Pages of physical memory in the regions of the memory map.
MaxPhysPages == 5

\* The memory maps given to init: one region from address 0, one that starts
\* and ends inside pages, both of them, and one that reaches past MAX_PAGES.
PhysRegions ==
    {<< <<Addr(0, 0), Addr(MaxPhysPages - 1, 0)>> >>,
     << <<Addr(1, 1), Addr(MaxPhysPages - 2, PAGE_SIZE - 1)>> >>,
     << <<Addr(0, 0), Addr(2, 0)>>, <<Addr(3, 8), Addr(MaxPhysPages - 3, 0)>> >>,
     << <<Addr(MAX_PAGES - 1, 0), Addr(2, 0)>> >>}

\* The bases passed to mark_used and free_pages: pages of the map, the last
\* page of the bitmap, and the page after it.
PhysBases == {Addr(0, 0), Addr(2, 16), Addr(MAX_PAGES - 1, 0), Addr(MAX_PAGES, 0)}

NextPhys ==
    \/ \E regions \in PhysRegions : PhysInitCall(regions)
    \/ \E base \in PhysBases, count \in 1..2 : PhysMarkUsed(base, count)
    \/ \E count \in 0..2, align \in 1..3 : PhysAlloc(count, align)
    \/ \E base \in PhysBases, count \in 1..2 : PhysFree(base, count)

SpecPhys == InitPhys /\ [][NextPhys]_vars

\* The HHDM offsets the boot loader may give, in pages: none, one page, and
\* one that maps physical memory above every page the bitmap covers.
HhdmOffsets == {0, 1, MAX_PAGES}

\* Blocks handed out at a time.
MaxLive == 2

\* The heap after boot: the page allocator initialised with MaxPhysPages
\* pages of usable RAM, the HHDM offset set, nothing allocated.
InitHeap ==
    /\ alloc = Formatted
    /\ ft = NewTable
    /\ files = [h \in Handles |-> Closed]
    /\ dev = BlankDevice
    /\ media = BlankDevice
    /\ shm = NoShm
    /\ call = NoCall
    /\ rc = SQLITE_OK
    /\ out = <<>>
    /\ panicked = FALSE
    /\ owner = NoOwner
    /\ at = [t \in Threads |-> Idle]
    /\ queue = NoQueue
    /\ phys = PhysInit(PhysNew, << <<Addr(0, 0), Addr(MaxPhysPages, 0)>> >>)
    /\ heap \in {NewHeap(hhdm) : hhdm \in HhdmOffsets}
    /\ drv = NoDriver

\* heavenos_malloc(size)
heavenos_malloc(size) ==
    /\ Cardinality(heap.live) < MaxLive
    /\ \E r \in {IF size = 0 THEN [ptr |-> NullPtr, h |-> heap, p |-> phys]
                 ELSE HeapAlloc(heap, phys, size, 8)} :
         /\ phys' = r.p
         /\ heap' = [r.h EXCEPT !.live = IF r.ptr = NullPtr THEN @ ELSE @ \cup {r.ptr}]
         /\ call' = [op |-> "malloc", size |-> size, ptr |-> r.ptr,
                     taken |-> phys.free_pages - r.p.free_pages]
    /\ UNCHANGED <<drv, queue, owner, at, alloc, ft, files, dev, media, shm, rc, out,
                   panicked>>

\* heavenos_free(ptr) of a block handed out and not freed yet.
heavenos_free(ptr) ==
    /\ ptr \in heap.live
    /\ \E r \in {HeapDealloc(heap, phys, ptr)} :
         /\ phys' = r.p
         /\ heap' = [r.h EXCEPT !.live = @ \ {ptr}]
         /\ call' = [op |-> "free", ptr |-> ptr, class |-> heap.header[ptr].class,
                     size |-> heap.header[ptr].size,
                     given |-> r.p.free_pages - phys.free_pages]
    /\ UNCHANGED <<drv, queue, owner, at, alloc, ft, files, dev, media, shm, rc, out,
                   panicked>>

\* The sizes asked for: the least, the ends of the two largest classes, and
\* sizes that take two and three pages.
MallocSizes == {0, 1, 2048, 2049, PAGE_SIZE, PAGE_SIZE + 1, 2 * PAGE_SIZE}

NextHeap ==
    \/ \E size \in MallocSizes : heavenos_malloc(size)
    \/ \E ptr \in heap.live : heavenos_free(ptr)

SpecHeap == InitHeap /\ [][NextHeap]_vars

\* ------------------------------------------------------------ build_prp

\* Pages of physical memory when build_prp is exercised: room for the longest
\* buffer and a few list pages.
MaxPrpPages == 516

\* Calls of build_prp in one run.
MaxPrpCalls == 3

\* Pages of the caller's buffers: one, two, a short list, a list that fills
\* its page to the last entry, and one entry more.
PrpBufferPages == {1, 2, 3, 4, PAGE_SIZE \div PRP_ENTRY_SIZE + 1, PAGE_SIZE \div PRP_ENTRY_SIZE + 2}

NoBuf == [pages |-> 0]

\* The page allocator after init over one region, no buffer yet.
InitPrp ==
    /\ alloc = Formatted
    /\ ft = NewTable
    /\ files = [h \in Handles |-> Closed]
    /\ dev = BlankDevice
    /\ media = BlankDevice
    /\ shm = NoShm
    /\ call = NoCall
    /\ rc = SQLITE_OK
    /\ out = <<>>
    /\ panicked = FALSE
    /\ owner = NoOwner
    /\ at = [t \in Threads |-> Idle]
    /\ queue = NoQueue
    /\ phys = PhysInit(PhysNew, << <<Addr(0, 0), Addr(MaxPrpPages, 0)>> >>)
    /\ heap = NoHeap
    /\ drv = [step |-> "prp", buf |-> NoBuf, calls |-> 0]

\* The caller's DmaBuf::alloc(n * PAGE_SIZE)
BufAlloc(n) ==
    /\ ~panicked
    /\ drv.buf = NoBuf
    /\ \E r \in {DmaAlloc(phys, n * PAGE_SIZE)} :
         /\ phys' = r.p
         /\ drv' = [drv EXCEPT !.buf = IF r.ok THEN [pages |-> n, page |-> r.page]
                                       ELSE NoBuf]
         /\ call' = [op |-> "dma_alloc", n |-> n, ok |-> r.ok]
    /\ UNCHANGED <<heap, queue, owner, at, alloc, ft, files, dev, media, shm, rc, out,
                   panicked>>

\* The caller drops its buffer.
BufDrop ==
    /\ ~panicked
    /\ drv.buf # NoBuf
    /\ phys' = DmaDrop(phys, drv.buf.page, drv.buf.pages * PAGE_SIZE)
    /\ drv' = [drv EXCEPT !.buf = NoBuf]
    /\ call' = [op |-> "dma_drop"]
    /\ UNCHANGED <<heap, queue, owner, at, alloc, ft, files, dev, media, shm, rc, out,
                   panicked>>

\* build_prp(buf, n * PAGE_SIZE) on the caller's buffer.
BuildPrpCall(n) ==
    /\ ~panicked
    /\ drv.buf # NoBuf
    /\ n <= drv.buf.pages
    /\ drv.calls < MaxPrpCalls
    /\ \E r \in {BuildPrp(phys, Addr(drv.buf.page, 0), n * PAGE_SIZE)} :
         /\ phys' = r.p
         /\ drv' = [drv EXCEPT !.calls = @ + 1]
         /\ panicked' = ~r.ok
         /\ call' = [op |-> "build_prp", n |-> n, base |-> Addr(drv.buf.page, 0),
                     ok |-> r.ok, prp1 |-> r.prp1, prp2 |-> r.prp2,
                     list |-> r.list, written |-> r.written,
                     free_before |-> phys.free_pages]
    /\ UNCHANGED <<heap, queue, owner, at, alloc, ft, files, dev, media, shm, rc, out>>

NextPrp ==
    \/ \E n \in PrpBufferPages : BufAlloc(n)
    \/ BufDrop
    \/ \E n \in PrpBufferPages : BuildPrpCall(n)

SpecPrp == InitPrp /\ [][NextPrp]_vars

\* ------------------------------------------------------------ the driver at work

\* Pages of physical memory the driver finds free: too few for the admin
\* queues, too few for the I/O queues, too few for the buffer of Identify
\* Namespace, and enough for init and transfers.
MaxNvmePages == 8
NvmePages == {1, 3, 4, MaxNvmePages}

\* read_blocks, write_blocks and flush calls in one run.
MaxIo == 3

\* CAP.TO and CAP.MQES of the controller; MQES is zero-based and at least 1.
CapTimeouts == {0, 1}
CapMqes == 1..(MaxQueueSize - 1)

\* Completion statuses: success, Invalid Command Opcode, LBA Out of Range
\* (type 0, code 0x80) and Unrecovered Read Error (type 2, code 0x81).
AdminStatuses == {0, 1}
IoStatuses == {0, 1, 128, 641}

\* Pages of the caller's buffers.
IoBufferPages == {1, 3}
IoKinds == {"read_blocks", "write_blocks", "flush"}

InitNvme ==
    /\ alloc = Formatted
    /\ ft = NewTable
    /\ files = [h \in Handles |-> Closed]
    /\ dev = BlankDevice
    /\ media = BlankDevice
    /\ shm = NoShm
    /\ call = NoCall
    /\ rc = SQLITE_OK
    /\ out = <<>>
    /\ panicked = FALSE
    /\ owner = NoOwner
    /\ at = [t \in Threads |-> Idle]
    /\ queue = NoQueue
    /\ phys \in {PhysInit(PhysNew, << <<Addr(0, 0), Addr(k, 0)>> >>) : k \in NvmePages}
    /\ heap = NoHeap
    /\ drv = NewDriver

\* NvmeDriver::new up to the first wait of init_controller: read CAP, write
\* CC.EN = 0.
New(to, mqes) ==
    /\ drv.step = "new"
    /\ drv' = [drv EXCEPT !.step = "wait_disabled",
                          !.timeout_500ms = to,
                          !.max_queue_entries = (mqes + 1) % 65536,
                          !.issued = <<"disable">>]
    /\ call' = [op |-> "new"]
    /\ UNCHANGED <<phys, heap, queue, owner, at, alloc, ft, files, dev, media, shm, rc, out,
                   panicked>>

\* One turn of the loop of wait_for_ready, the controller showing RDY = rdy
\* and CFS = cfs in CSTS; after max_spins reads the loop ends in Timeout.
WaitPoll(rdy, cfs) ==
    /\ drv.step \in {"wait_disabled", "wait_enabled"}
    /\ LET target == drv.step = "wait_enabled"
           read == [drv EXCEPT !.polls = @ + 1]
           res == WaitForReady(target, rdy, cfs)
       IN  \E x \in {IF drv.polls >= MaxSpins(drv)
                     THEN Fail(drv, phys, Err("Timeout"))
                     ELSE IF res = "ok" THEN WaitDone(read, phys)
                     ELSE IF res = "fatal" THEN Fail(read, phys, Err("ControllerFatal"))
                     ELSE [d |-> read, p |-> phys]} :
             /\ drv' = x.d
             /\ phys' = x.p
             /\ call' = [op |-> "wait_for_ready", target |-> target,
                         read |-> drv.polls < MaxSpins(drv), rdy |-> rdy, cfs |-> cfs]
    /\ UNCHANGED <<heap, queue, owner, at, alloc, ft, files, dev, media, shm, rc, out,
                   panicked>>

\* The controller completes the admin command at the head of the admin SQ.
ControllerAdmin(status) ==
    /\ drv.admin # NoQueue
    /\ Pending(drv.admin) > 0
    /\ drv' = [drv EXCEPT !.admin = Complete(@, status)]
    /\ UNCHANGED <<phys, heap, queue, owner, at, alloc, ft, files, dev, media, shm, call, rc,
                   out, panicked>>

\* The controller completes the command at the head of the I/O SQ.
ControllerIo(status) ==
    /\ drv.io # NoQueue
    /\ Pending(drv.io) > 0
    /\ drv' = [drv EXCEPT !.io = Complete(@, status)]
    /\ UNCHANGED <<phys, heap, queue, owner, at, alloc, ft, files, dev, media, shm, call, rc,
                   out, panicked>>

\* The turn of the loop of admin_submit_wait that finds the completion, and
\* init_controller from there to its next wait or its return.
AdminPoll ==
    /\ drv.step \in {"identify_controller", "create_io_cq", "create_io_sq",
                     "identify_namespace"}
    /\ drv.busy
    /\ \E r \in {PollPair(drv.admin)} :
         /\ r.some
         /\ \E x \in {AdminDone([drv EXCEPT !.admin = r.q], phys, r.status)} :
              /\ drv' = x.d
              /\ phys' = x.p
              /\ call' = [op |-> "admin", step |-> drv.step, status |-> r.status]
    /\ UNCHANGED <<heap, queue, owner, at, alloc, ft, files, dev, media, shm, rc, out,
                   panicked>>

\* The caller of the ready driver allocates its buffer, and drops it.
IoBufAlloc(n) == drv.step = "ready" /\ ~drv.busy /\ BufAlloc(n)
IoBufDrop == drv.step = "ready" /\ ~drv.busy /\ BufDrop

\* read_blocks, write_blocks and flush up to their loop: build_prp for the
\* transfer of the whole buffer (blocks of PAGE_SIZE bytes), submit, tail
\* doorbell. The expect of build_prp_contiguous panics when no page is free.
IoStart(kind) ==
    /\ ~panicked
    /\ drv.step = "ready"
    /\ ~drv.busy
    /\ drv.ios < MaxIo
    /\ kind # "flush" => drv.buf.pages > 0
    /\ \E r \in {IF kind = "flush"
                 THEN [ok |-> TRUE, prp1 |-> Addr(0, 0), prp2 |-> Addr(0, 0), p |-> phys]
                 ELSE BuildPrp(phys, Addr(drv.buf.page, 0), drv.buf.pages * PAGE_SIZE)} :
         IF ~drv.ns_info \/ ~drv.io_queue
         THEN /\ call' = [op |-> kind, pc |-> "returned", status |-> 0,
                          result |-> Err("NotInitialized"), n |-> 0,
                          prp2 |-> Addr(0, 0),
                          free_before |-> phys.free_pages, free_after |-> phys.free_pages]
              /\ UNCHANGED <<drv, phys, panicked>>
         ELSE /\ phys' = r.p
              /\ panicked' = ~r.ok
              /\ drv' = IF r.ok
                        THEN [drv EXCEPT !.io = RingSq(Submit(@)), !.busy = TRUE,
                                         !.ios = @ + 1]
                        ELSE drv
              /\ call' = [op |-> kind, pc |-> IF r.ok THEN "submitted" ELSE "panicked",
                          status |-> 0, result |-> Err("none"),
                          n |-> IF kind = "flush" THEN 0 ELSE drv.buf.pages,
                          prp2 |-> r.prp2,
                          free_before |-> phys.free_pages, free_after |-> r.p.free_pages]
    /\ UNCHANGED <<heap, queue, owner, at, alloc, ft, files, dev, media, shm, rc, out>>

\* The turn of the loop of read_blocks, write_blocks and flush that finds the
\* completion: head doorbell, and the result from the status.
IoPoll ==
    /\ drv.step = "ready"
    /\ drv.busy
    /\ \E r \in {PollPair(drv.io)} :
         /\ r.some
         /\ drv' = [drv EXCEPT !.io = r.q, !.busy = FALSE]
         /\ call' = [call EXCEPT !.pc = "returned", !.status = r.status,
                                 !.result = IoResult(r.status),
                                 !.free_after = phys.free_pages]
    /\ UNCHANGED <<phys, heap, queue, owner, at, alloc, ft, files, dev, media, shm, rc, out,
                   panicked>>

NextNvme ==
    \/ \E to \in CapTimeouts, mqes \in CapMqes : New(to, mqes)
    \/ \E rdy \in BOOLEAN, cfs \in BOOLEAN : WaitPoll(rdy, cfs)
    \/ \E status \in AdminStatuses : ControllerAdmin(status)
    \/ AdminPoll
    \/ \E n \in IoBufferPages : IoBufAlloc(n)
    \/ IoBufDrop
    \/ \E kind \in IoKinds : IoStart(kind)
    \/ \E status \in IoStatuses : ControllerIo(status)
    \/ IoPoll

SpecNvme == InitNvme /\ [][NextNvme]_vars

\* The driver's loops keep turning, and the controller completes what it was
\* given.
SpecNvmeFair ==
    /\ SpecNvme
    /\ WF_vars(\E rdy \in BOOLEAN, cfs \in BOOLEAN : WaitPoll(rdy, cfs))
    /\ WF_vars(AdminPoll)
    /\ WF_vars(IoPoll)
    /\ WF_vars(\E status \in AdminStatuses : ControllerAdmin(status))
    /\ WF_vars(\E status \in IoStatuses : ControllerIo(status))

\* Device geometries format accepts: from the smallest namespace up, the
\* namespace of the specification's example, and one whose bitmap takes two blocks.
GeomBlocks == (2..MaxGeomBlocks) \cup {1024, 40000}
GeomSizes == {4096, 8192}

\* BlockAllocator::format(total_blocks, block_size) on the namespace.
Format(total_blocks, block_size) ==
    /\ call.op = "none"
    /\ alloc' = FormatAllocator(total_blocks, block_size)
    /\ dev' = FormatImage(total_blocks, block_size)
    /\ media' = dev'
    /\ rc' = "Ok"
    /\ call' = [op |-> "format", total_blocks |-> total_blocks, block_size |-> block_size]
    /\ UNCHANGED <<phys, heap, drv, queue, owner, at, ft, files, shm, out, panicked>>

\* BlockAllocator::load on the namespace just formatted.
Load ==
    /\ call.op = "format"
    /\ alloc' = LoadAllocator(alloc, dev)
    /\ rc' = "Ok"
    /\ call' = [call EXCEPT !.op = "load"]
    /\ UNCHANGED <<phys, heap, drv, queue, owner, at, ft, files, dev, media, shm, out, panicked>>

NextFormat ==
    \/ \E total_blocks \in GeomBlocks, block_size \in GeomSizes :
         Format(total_blocks, block_size)
    \/ Load

SpecFormat == Init /\ [][NextFormat]_vars

\* ------------------------------------------------------------ properties

\* The data blocks a file-table entry names: block_count blocks from start_block.
Extent(e) == e.start_block..(e.start_block + e.block_count - 1)

\* C1: after any sequence of open / write / truncate / delete / close calls on
\* any handles, every in-use file-table entry has all the bits of its extent set
\* in the allocator bitmap, and no two in-use entries' extents share a block.
C1_ExtentsAllocatedAndDisjoint ==
    /\ \A i \in InUse(ft.entries) : Extent(ft.entries[i]) \subseteq alloc.bitmap
    /\ \A i, j \in InUse(ft.entries) :
           i # j => Extent(ft.entries[i]) \cap Extent(ft.entries[j]) = {}

\* C2: after any sequence of alloc and free calls, free_count equals the number
\* of 0-bits in the valid range [0, data_block_count) of the in-RAM bitmap.
C2_FreeCountIsZeroBits ==
    alloc.free_count =
        Cardinality({i \in 0..(alloc.data_block_count - 1) : i \notin alloc.bitmap})

\* Byte x of the file behind a handle, as the device holds it.
FileByte(data, file, x) == BlockAt(data, file.start_lba + (x \div BlockSize))[x % BlockSize]

\* The allocator and the file table as a boot loads them from a namespace image.
Reload(image) == [a |-> LoadAllocator(alloc, image), t |-> LoadTable(image)]

\* C3: after sync(handle) returns SQLITE_OK, reloading the allocator and the
\* file table from the device and reopening the file yields the byte_length,
\* start_block and block_count the handle and the entry had just before the
\* sync, and a bitmap in which that extent is marked used.
C3_SyncPersistsMetadata ==
    [][(call'.op = "sync" /\ rc' = SQLITE_OK)
           => LET h == call'.h
                  before == files[h].file
                  entry == ft.entries[before.file_table_index]
                  boot == Reload(media')
                  reopened == OpenResult(boot.a, boot.t, files[h].name, FALSE)
              IN  /\ media' = dev'
                  /\ reopened.rc = SQLITE_OK
                  /\ reopened.file.byte_length = before.byte_length
                  /\ reopened.file.start_lba = before.start_lba
                  /\ reopened.file.start_lba - boot.a.data_start_lba = entry.start_block
                  /\ reopened.file.block_count = before.block_count
                  /\ reopened.file.block_count = entry.block_count
                  /\ Extent(entry) \subseteq boot.a.bitmap]_vars

\* C3 happens: a sync returned SQLITE_OK on a file that was written and relocated.
C3_Witness ==
    /\ call.op = "sync" /\ rc = SQLITE_OK
    /\ files[call.h].file.byte_length > 0
    /\ files[call.h].file.block_count > INITIAL_ALLOC_BLOCKS

\* C4: at any point between a relocating write and the next successful sync, the
\* file table a crash would recover names for each file an extent that has not
\* been handed to another file's allocation.
C4_RecoveredExtentNotReallocated ==
    \A image \in CrashImages(dev, media) :
        \A i \in InUse(image.table), j \in InUse(ft.entries) :
            NameBytes(image.table[i]) # NameBytes(ft.entries[j])
                => Extent(image.table[i]) \cap Extent(ft.entries[j]) = {}

\* C5: for o + |d| <= byte_length of an open file, write(d, o), then sync(),
\* then a read of |d| bytes at o returns SQLITE_OK and exactly d.
C5_WriteSyncRead ==
    (call.op = "write" /\ call.offset + Len(call.data) <= call.pre.byte_length)
        => LET file == files[call.h].file
               synced == SyncResult(file, alloc, ft, dev, media, NoFault)
               read == ReadResult(file, synced.dev.data, Buffer(Len(call.data)),
                                  call.offset, NoFault)
           IN  /\ rc = SQLITE_OK
               /\ synced.rc = SQLITE_OK
               /\ read.rc = SQLITE_OK /\ read.buf = call.data

\* C6: a write of d at offset o that is not block-aligned changes only bytes
\* [o, o + |d|): every other byte of the touched blocks keeps the value it had
\* on the device before the write (in the old extent, for a block the write
\* copied to a new extent).
C6_RmwKeepsNeighbours ==
    [][(/\ call'.op = "write" /\ rc' = SQLITE_OK
        /\ ~(call'.offset % BlockSize = 0 /\ Len(call'.data) % BlockSize = 0))
           => LET o == call'.offset
                  n == Len(call'.data)
                  after == files'[call'.h].file
              IN  \A b \in (o \div BlockSize)..((o + n - 1) \div BlockSize),
                     j \in 0..(BlockSize - 1) :
                      (b * BlockSize + j < o \/ b * BlockSize + j >= o + n)
                          => BlockAt(dev'.data, after.start_lba + b)[j]
                               = IF b < call'.pre.block_count
                                 THEN BlockAt(dev.data, call'.pre.start_lba + b)[j]
                                 ELSE BlockAt(dev.data, after.start_lba + b)[j]]_vars

\* C6 happens: a write that is not block-aligned returned SQLITE_OK and a byte
\* of a touched block outside [o, o + |d|) is not zero.
C6_Witness ==
    /\ call.op = "write" /\ rc = SQLITE_OK
    /\ call.offset % BlockSize # 0
    /\ FileByte(dev.data, files[call.h].file, call.offset - 1) # 0

\* C7: when a write relocates the file, the file content in [0, old_byte_length)
\* outside the written range is after the write what it was before the write.
C7_RelocationKeepsContent ==
    [][(/\ call'.op = "write"
        /\ files'[call'.h].file.block_count > call'.pre.block_count)
           => \A x \in 0..(call'.pre.byte_length - 1) :
                  (x < call'.offset \/ x >= call'.offset + Len(call'.data))
                      => FileByte(dev'.data, files'[call'.h].file, x)
                           = FileByte(dev.data, call'.pre, x)]_vars

\* C7 happens: a write relocated a file that held a non-zero byte outside the
\* written range.
C7_Witness ==
    /\ call.op = "write" /\ rc = SQLITE_OK
    /\ files[call.h].file.block_count > call.pre.block_count
    /\ \E x \in 0..(call.pre.byte_length - 1) :
           /\ (x < call.offset \/ x >= call.offset + Len(call.data))
           /\ FileByte(dev.data, files[call.h].file, x) # 0

\* C8: a read with offset >= byte_length returns SQLITE_IOERR_SHORT_READ with
\* buf entirely zero; a read with offset < byte_length < offset + |buf| returns
\* SQLITE_IOERR_SHORT_READ with the first byte_length - offset bytes taken from
\* the file and every byte beyond the end of the file zero.
C8_ShortReadZeroFills ==
    call.op = "read"
        => LET file == files[call.h].file
               avail == file.byte_length - call.offset
           IN  /\ call.offset >= file.byte_length
                    => /\ rc = SQLITE_IOERR_SHORT_READ
                       /\ out = [i \in 1..call.amount |-> 0]
               /\ (call.offset < file.byte_length
                     /\ file.byte_length < call.offset + call.amount)
                    => /\ rc = SQLITE_IOERR_SHORT_READ
                       /\ out = [i \in 1..call.amount |->
                                   IF i <= avail
                                   THEN FileByte(dev.data, file, call.offset + i - 1)
                                   ELSE 0]

\* C8 happens: a read across the end of the file returned file bytes that are
\* not zero before the bytes past the end.
C8_Witness ==
    /\ call.op = "read"
    /\ call.offset < files[call.h].file.byte_length
    /\ files[call.h].file.byte_length < call.offset + call.amount
    /\ out[1] # 0

\* C8 happens at or past the end of the file as well.
C8_WitnessPastEnd ==
    /\ call.op = "read"
    /\ call.offset >= files[call.h].file.byte_length
    /\ files[call.h].file.byte_length > 0

\* The stage of sync(file) at which fault makes it fail, from the state before.
SyncBitmapFails(fault) ==
    /\ alloc.dirty
    /\ \/ fault.pt = "bitmap_nomem"
       \/ fault.pt = "bitmap_write" /\ fault.k < alloc.bitmap_on_disk_blocks
SyncTableFails(file, fault) ==
    /\ ~SyncBitmapFails(fault)
    /\ CloseResult(file, ft).t.dirty
    /\ fault.pt \in {"table_nomem", "table_write"}
SyncFlushFails(file, fault) ==
    ~SyncBitmapFails(fault) /\ ~SyncTableFails(file, fault) /\ fault.pt = "flush"

\* C11: sync returns SQLITE_OK only after the handle's byte_length was copied
\* into the entry, the bitmap blocks and then the file-table block were written
\* and an NVMe Flush issued after those writes completed; a failure of the
\* bitmap flush, of the file-table flush or of the NVMe Flush gives
\* SQLITE_IOERR_FSYNC, and no later step has then been taken.
C11_SyncOrder ==
    [][call'.op = "sync"
           => LET file == files[call'.h].file
                  fault == call'.fault
                  copied == CloseResult(file, ft).t
              IN  /\ rc' = SQLITE_IOERR_FSYNC
                        <=> \/ SyncBitmapFails(fault)
                            \/ SyncTableFails(file, fault)
                            \/ SyncFlushFails(file, fault)
                  /\ rc' # SQLITE_IOERR_FSYNC => rc' = SQLITE_OK
                  /\ rc' = SQLITE_OK
                        => /\ HasEntry(ft, file.file_table_index)
                                => dev'.table[file.file_table_index].byte_length
                                     = file.byte_length
                           /\ dev'.bitmap = alloc.bitmap
                           /\ dev'.table = copied.entries
                           /\ media' = dev'
                  /\ SyncBitmapFails(fault) => dev'.table = dev.table /\ media' = media
                  /\ SyncTableFails(file, fault)
                        => dev'.bitmap = alloc.bitmap /\ dev'.table = dev.table
                             /\ media' = media
                  /\ SyncFlushFails(file, fault)
                        => dev'.bitmap = alloc.bitmap /\ dev'.table = copied.entries
                             /\ media' = media]_vars

\* C11 happens: a sync returned SQLITE_OK and made a grown, written file durable.
C11_Witness ==
    /\ call.op = "sync" /\ rc = SQLITE_OK
    /\ files[call.h].file.byte_length > 0
    /\ media.bitmap # {} /\ media.table # BlankDevice.table /\ media = dev

\* C11 happens on the failure side: the NVMe Flush failed after both writes.
C11_WitnessFlushFails ==
    /\ call.op = "sync" /\ call.fault.pt = "flush" /\ rc = SQLITE_IOERR_FSYNC
    /\ media # dev

\* The blocks a write of data at offset needs the file to have.
NeededBlocks(data, offset) == ((offset + Len(data) - 1) \div BlockSize) + 1

\* C12: when a growing write fails during relocation (no run: SQLITE_FULL; no
\* DMA buffer; a copy read or copy write fails; the Flush fails), the handle's
\* start_lba, block_count and byte_length, the file-table entries and the
\* allocator's bitmap and free_count are what they were before the call.
C12_FailedRelocationUnchanged ==
    [][(/\ call'.op = "write"
        /\ NeededBlocks(call'.data, call'.offset) > call'.pre.block_count
        /\ rc' # SQLITE_OK)
           => /\ rc' \in {SQLITE_FULL, SQLITE_IOERR_NOMEM, SQLITE_IOERR_READ,
                          SQLITE_IOERR_WRITE, SQLITE_IOERR_FSYNC}
              /\ files'[call'.h].file = call'.pre
              /\ ft'.entries = ft.entries
              /\ alloc'.bitmap = alloc.bitmap
              /\ alloc'.free_count = alloc.free_count]_vars

\* C12 happens: the copy of a relocation failed at a later block, after the new
\* extent had been allocated and blocks of a written file copied into it.
C12_Witness ==
    /\ call.op = "write" /\ rc = SQLITE_IOERR_WRITE
    /\ call.fault.pt = "copy_write" /\ call.fault.k > 0
    /\ call.pre.byte_length > 0
    /\ files[call.h].file = call.pre

\* C12 happens for a full allocator as well.
C12_WitnessFull ==
    /\ call.op = "write" /\ rc = SQLITE_FULL
    /\ NeededBlocks(call.data, call.offset) > call.pre.block_count

\* C13: format(N, B) followed by load() yields an allocator with free_count ==
\* data_block_count, block_size == B and the data_start_lba of format, where
\* data_start_lba == 1 + bitmap_block_count + file_table_block_count and
\* bitmap_block_count * B * 8 >= data_block_count; for N = 1024 and B = 4096,
\* data_block_count >= 1020.
C13_FormatLoad ==
    call.op = "load"
        => LET formatted == FormatAllocator(call.total_blocks, call.block_size)
           IN  /\ alloc.free_count = alloc.data_block_count
               /\ alloc.block_size = call.block_size
               /\ alloc.data_start_lba = formatted.data_start_lba
               /\ alloc.data_start_lba
                    = 1 + dev.sb.bitmap_block_count + dev.sb.file_table_block_count
               /\ dev.sb.bitmap_block_count * call.block_size * 8 >= alloc.data_block_count
               /\ (call.total_blocks = 1024 /\ call.block_size = 4096)
                    => alloc.data_block_count >= 1020

\* C13 happens: the 1024-block namespace of 4096-byte blocks was formatted and loaded.
C13_Witness ==
    /\ call.op = "load" /\ call.total_blocks = 1024 /\ call.block_size = 4096
    /\ alloc.data_block_count = 1021 /\ alloc.free_count = 1021

\* C14: BlockAllocator::free is idempotent on the counter: after free(start,
\* count) of allocated blocks, a second free(start, count) of the same range
\* completes and leaves free_count as the first free left it.
C14_FreeIdempotent ==
    (call.op = "free" /\ call.allocated)
        => \A build \in Builds(FreeOfClearBit(alloc, call.start, call.count)) :
               /\ build # "debug"
               /\ FreeBlocks(alloc, call.start, call.count).free_count = alloc.free_count

\* C15: delete(name) on an existing file returns Ok (in every build), removes
\* its entry and frees exactly its extent, blocks that were allocated; on an
\* absent name it returns Ok and changes nothing; a second delete(name) right
\* after returns Ok and changes nothing.
C15_Delete ==
    [][\A name \in Names :
         LET idx == Lookup(ft, name)
         IN  (call'.op = "delete" /\ call'.name = name /\ ~panicked')
               => /\ rc' = SQLITE_OK
                  /\ ~DeleteResult(alloc, ft, name).dbg
                  /\ idx = -1 => (alloc' = alloc /\ ft' = ft)
                  /\ idx # -1 =>
                       /\ InUse(ft'.entries) = InUse(ft.entries) \ {idx}
                       /\ \A j \in InUse(ft'.entries) : ft'.entries[j] = ft.entries[j]
                       /\ alloc'.bitmap = alloc.bitmap \ Extent(ft.entries[idx])
                       /\ alloc'.free_count = alloc.free_count + ft.entries[idx].block_count
                  /\ \E again \in {DeleteResult(alloc', ft', name)} :
                       again.rc = SQLITE_OK /\ again.a = alloc' /\ again.t = ft']_vars

\* What open does when an entry matches the name: the handle carries the
\* entry's index, start_lba = data_start_lba + start_block, block_count and
\* byte_length, and no state changes.
OpenFound(h, idx) ==
    /\ rc' = SQLITE_OK
    /\ files'[h].open
    /\ files'[h].file = [file_table_index |-> idx,
                         start_lba |-> alloc.data_start_lba + ft.entries[idx].start_block,
                         block_count |-> ft.entries[idx].block_count,
                         byte_length |-> ft.entries[idx].byte_length]
    /\ alloc' = alloc /\ ft' = ft /\ dev' = dev

\* What open does when no entry matches and CREATE is absent: CantOpen, nothing changes.
OpenAbsent ==
    rc' = SQLITE_CANTOPEN /\ alloc' = alloc /\ ft' = ft /\ files' = files /\ dev' = dev

\* What open does when it creates: exactly 16 contiguous blocks allocated, one
\* entry created for them, the handle of byte_length 0 and block_count 16.
OpenCreated(h, name) ==
    /\ rc' = SQLITE_OK
    /\ \E start \in 0..(alloc.data_block_count - INITIAL_ALLOC_BLOCKS) :
         \E slot \in EntryIndex \ InUse(ft.entries) :
           /\ (start..(start + INITIAL_ALLOC_BLOCKS - 1)) \cap alloc.bitmap = {}
           /\ alloc'.bitmap = alloc.bitmap \cup (start..(start + INITIAL_ALLOC_BLOCKS - 1))
           /\ alloc'.free_count = alloc.free_count - INITIAL_ALLOC_BLOCKS
           /\ InUse(ft'.entries) = InUse(ft.entries) \cup {slot}
           /\ \A j \in InUse(ft.entries) : ft'.entries[j] = ft.entries[j]
           /\ ft'.entries[slot].start_block = start
           /\ ft'.entries[slot].block_count = INITIAL_ALLOC_BLOCKS
           /\ ft'.entries[slot].byte_length = 0
           /\ files'[h].open
           /\ files'[h].file = [file_table_index |-> slot,
                                start_lba |-> alloc.data_start_lba + start,
                                block_count |-> INITIAL_ALLOC_BLOCKS,
                                byte_length |-> 0]

C16_WitnessFull ==
    call.op = "open" /\ call.create /\ rc = SQLITE_FULL

\* C17: after any sequence of open (with or without CREATE, names of any length)
\* and delete calls, no two in-use entries have equal name_bytes.
C17_UniqueNames ==
    \A i, j \in InUse(ft.entries) :
        i # j => NameBytes(ft.entries[i]) # NameBytes(ft.entries[j])

\* C18: after any sequence of open / write / truncate / sync / close calls
\* (several handles on one file included), every in-use entry and every open
\* handle satisfies byte_length <= block_count * block_size.
C18_LengthWithinExtent ==
    /\ \A i \in InUse(ft.entries) :
           ft.entries[i].byte_length <= ft.entries[i].block_count * BlockSize
    /\ \A h \in Handles :
           files[h].open => files[h].file.byte_length <= files[h].file.block_count * BlockSize

\* The mutexes caller t holds, by rank.
Held(t) == {i \in 1..Len(Locks) : owner[i] = t}

\* The rank of the mutex caller t is requesting, 0 when it requests none.
Requests(t) ==
    IF at[t] # Idle /\ Instr(at[t]).k = "acq" THEN Rank(Instr(at[t]).l) ELSE 0

\* C19: every public VFS operation acquires its mutexes in the order device ->
\* block allocator -> file table: no caller requests a mutex that comes at or
\* before one it holds, and no set of callers is such that each waits for a
\* mutex held by a caller of the set.
C19_LockOrder ==
    /\ \A t \in Threads : \A i \in Held(t) : Requests(t) # 0 => i < Requests(t)
    /\ ~ \E S \in (SUBSET Threads) \ {{}} :
           \A t \in S : Requests(t) # 0 /\ owner[Requests(t)] \in S

\* C19 happens: a caller holding the device and the allocator requests the file
\* table, which a second caller holds while it waits for nothing.
C19_Witness ==
    \E t, u \in Threads :
        /\ t # u
        /\ Held(t) = {Rank("nvme"), Rank("allocator")}
        /\ Requests(t) = Rank("file_table")
        /\ owner[Rank("file_table")] = u

\* C20: when the device read issued by read() fails, read returns IoErr_Read and
\* the caller's buffer is entirely zero-filled on return.
C20_ReadErrorZeroFills ==
    (call.op = "read" /\ call.fault.pt = "read" /\ rc # SQLITE_IOERR_SHORT_READ)
        => /\ rc = SQLITE_IOERR_READ
           /\ Len(out) = call.amount
           /\ \A i \in 1..Len(out) : out[i] = 0

\* A truncate that left the handle, the file table and the allocator as they were.
TruncateNoOp ==
    /\ rc' = SQLITE_OK
    /\ files'[call'.h].file = call'.pre
    /\ ft' = ft /\ alloc' = alloc /\ dev' = dev

\* C21 as stated: truncate(new_size) with new_size >= byte_length, equality
\* included, is a no-op returning Ok: handle, file-table entry, bitmap and
\* free_count unchanged.
C21_TruncateGeAsStated ==
    [][(call'.op = "truncate" /\ call'.size >= call'.pre.byte_length) => TruncateNoOp]_vars

\* C21, amended: truncate(new_size) with new_size > byte_length is a no-op
\* returning Ok; with new_size = byte_length it returns Ok and keeps byte_length,
\* and frees the blocks of the extent beyond max(1, ceil(new_size / block_size)),
\* lowering block_count in the handle and in the entry.
C21_TruncateGe ==
    [][/\ (call'.op = "truncate" /\ call'.size > call'.pre.byte_length) => TruncateNoOp
       /\ (call'.op = "truncate" /\ call'.size = call'.pre.byte_length)
            => LET pre == call'.pre
                   needed == IF call'.size = 0 THEN 1 ELSE CeilDiv(call'.size, BlockSize)
                   kept == IF needed < pre.block_count THEN needed ELSE pre.block_count
                   first == pre.start_lba - alloc.data_start_lba
                   excess == (first + kept)..(first + pre.block_count - 1)
               IN  /\ rc' = SQLITE_OK
                   /\ files'[call'.h].file = [pre EXCEPT !.block_count = kept]
                   /\ alloc'.bitmap = alloc.bitmap \ excess
                   /\ alloc'.free_count = alloc.free_count + Cardinality(excess)
                   /\ ft'.entries[pre.file_table_index].block_count = kept
                   /\ ft'.entries[pre.file_table_index].start_block = first
                   /\ dev' = dev]_vars

\* C21 happens: a file holding one block of data was truncated to a larger size
\* and kept its sixteen blocks.
C21_Witness ==
    /\ call.op = "truncate" /\ call.size > call.pre.byte_length
    /\ call.pre.byte_length = BlockSize
    /\ files[call.h].file = call.pre
    /\ files[call.h].file.block_count = INITIAL_ALLOC_BLOCKS

\* C21 happens: a truncate to the file's own length gave blocks back.
C21_WitnessEqual ==
    /\ call.op = "truncate" /\ call.size = call.pre.byte_length
    /\ files[call.h].file.block_count < call.pre.block_count

\* C22: BlockAllocator::alloc(count) is first-fit: when it succeeds it returns
\* the lowest index s such that bits s..s+count-1 were all clear, sets exactly
\* those bits, lowers free_count by count and sets dirty.
C22_FirstFit ==
    [][(call'.op = "alloc" /\ rc' = "Ok" /\ ~panicked')
         => LET s == call'.start
                count == call'.count
                Clear(x) == (x..(x + count - 1)) \cap alloc.bitmap = {}
            IN  /\ s >= 0 /\ s + count <= alloc.data_block_count
                /\ Clear(s)
                /\ \A x \in 0..(s - 1) : ~Clear(x)
                /\ alloc'.bitmap = alloc.bitmap \cup (s..(s + count - 1))
                /\ alloc'.free_count = alloc.free_count - count
                /\ alloc'.dirty]_vars

\* C22 happens: a run was taken across the boundary of the first bitmap word.
C22_Witness ==
    /\ call.op = "alloc" /\ rc = "Ok"
    /\ call.start < WordBits /\ call.start + call.count > WordBits
    /\ (call.start..(call.start + call.count - 1)) \subseteq alloc.bitmap

\* C22 happens: a free gap too small for the run was skipped.
C22_WitnessGap ==
    /\ call.op = "alloc" /\ rc = "Ok" /\ call.count > 1
    /\ \E x \in 0..(call.start - 1) : x \notin alloc.bitmap

\* C23: in a file created by open with CREATE, every byte below byte_length
\* that no write has covered reads as 0x00, also when the extent reuses blocks a
\* deleted file had written: after the first write into a zero-length file, at
\* offset > 0, a read of the bytes in front of it returns Ok and zeros.
C23_UnwrittenReadsZero ==
    (call.op = "write" /\ rc = SQLITE_OK /\ call.pre.byte_length = 0 /\ call.offset > 0
        /\ files[call.h].open)
        => \E r \in {ReadResult(files[call.h].file, dev.data, Buffer(call.offset), 0, NoFault)} :
               /\ r.rc = SQLITE_OK
               /\ \A i \in 1..call.offset : r.buf[i] = 0

\* C24: in a relocating write the steps happen in order and none starts before
\* the one before it succeeded: allocate the new extent; copy every old block;
\* flush; update the handle, then the file-table entry; only then free the old
\* extent.  The old extent's bits are never cleared while the entry names it.
C24_RelocationOrder ==
    call.op = "relocate"
        => LET old == call.old
               entry == ft.entries[old.file_table_index]
               file == files[call.h].file
               new_lba == alloc.data_start_lba + call.new_start_block
               OldExtent == call.old_start_block..(call.old_start_block + old.block_count - 1)
               NewExtent == call.new_start_block..(call.new_start_block + call.needed - 1)
               Copied(data) == \A blk \in 0..(old.block_count - 1) :
                                   BlockAt(data, new_lba + blk) = BlockAt(dev.data, old.start_lba + blk)
               HandleOld == file = old
               HandleNew == file = [old EXCEPT !.start_lba = new_lba, !.block_count = call.needed]
               EntryOld == entry.start_block = call.old_start_block
                             /\ entry.block_count = old.block_count
               EntryNew == entry.start_block = call.new_start_block
                             /\ entry.block_count = call.needed
           IN  /\ EntryOld => OldExtent \subseteq alloc.bitmap
               /\ call.pc \in {"copy", "flush", "handle", "entry", "free"}
                    => NewExtent \subseteq alloc.bitmap /\ NewExtent \cap OldExtent = {}
               /\ call.pc \in {"flush", "handle", "entry", "free"} => Copied(dev.data)
               /\ call.pc \in {"handle", "entry", "free"} => Copied(media.data)
               /\ call.pc \in {"copy", "flush", "handle"} => HandleOld /\ EntryOld
               /\ call.pc = "entry" => HandleNew /\ EntryOld
               /\ call.pc = "free" => HandleNew /\ EntryNew /\ OldExtent \subseteq alloc.bitmap
               /\ (call.pc = "done" /\ rc = SQLITE_OK)
                    => /\ HandleNew /\ EntryNew /\ Copied(media.data)
                       /\ OldExtent \cap alloc.bitmap = {}
               /\ (call.pc = "done" /\ rc # SQLITE_OK) => HandleOld /\ EntryOld
               /\ (call.pc = "done" /\ rc \notin {SQLITE_OK, SQLITE_FULL})
                    => NewExtent \cap alloc.bitmap = {}

\* C24 happens: a file holding data was relocated, its old extent freed last.
C24_Witness ==
    /\ call.op = "relocate" /\ call.pc = "done" /\ rc = SQLITE_OK
    /\ call.old.byte_length > 0
    /\ files[call.h].file.block_count = INITIAL_ALLOC_BLOCKS + 1
    /\ alloc.free_count = alloc.data_block_count - INITIAL_ALLOC_BLOCKS - 1

\* C24 happens: the flush failed and no later step was taken.
C24_WitnessFlushFails ==
    /\ call.op = "relocate" /\ call.pc = "done" /\ rc = SQLITE_IOERR_FSYNC
    /\ files[call.h].file = call.old

\* C25: an open call that returns an error, the one made with every file-table
\* slot in use included, leaves the allocator's bitmap and free_count unchanged.
C25_OpenErrorKeepsAllocator ==
    [][(call'.op = "open" /\ rc' # SQLITE_OK)
         => (alloc'.bitmap = alloc.bitmap /\ alloc'.free_count = alloc.free_count)]_vars

\* The entry a handle was opened on: the one at its index, while it has the
\* handle's name.
OnEntry(t, f) ==
    /\ f.open
    /\ HasEntry(t, f.file.file_table_index)
    /\ NameBytes(t.entries[f.file.file_table_index]) = f.name

\* C26: in no step is the file-table entry of a file removed, or a block of its
\* extent freed, while a handle on that file is open.
C26_DeleteOnlyClosed ==
    [][\A h \in Handles :
         OnEntry(ft, files[h])
           => LET idx == files[h].file.file_table_index
              IN  \/ (/\ files'[h].open /\ files'[h].name = files[h].name
                      /\ Extent(ft.entries[idx]) \subseteq alloc.bitmap)
                       => /\ HasEntry(ft', idx)
                          /\ NameBytes(ft'.entries[idx]) = files[h].name
                          /\ Extent(ft'.entries[idx]) \subseteq alloc'.bitmap
                  \/ panicked']_vars

\* C28: close(handle) and sync(handle) change the byte_length of no entry other
\* than that of the file the handle was opened on, also where that file was
\* deleted after the open and its slot given to a newly created file.
C28_CloseSyncOwnEntryOnly ==
    [][(call'.op \in {"close", "sync"} /\ ~panicked')
         => \A i \in InUse(ft.entries) :
              (i # files[call'.h].file.file_table_index
                 \/ NameBytes(ft.entries[i]) # files[call'.h].name)
                => /\ HasEntry(ft', i)
                   /\ ft'.entries[i].byte_length = ft.entries[i].byte_length]_vars

\* C27: with one open handle on a file, after every xWrite and xTruncate made
\* through the bridge the handle kept in the sqlite3_file agrees with the file's
\* entry: start_lba = data_start_lba + entry.start_block and
\* block_count = entry.block_count.
C27_HandleAgreesWithEntry ==
    (call.op \in {"write", "truncate"} /\ ~panicked /\ OnEntry(ft, files[call.h]))
      => LET file == files[call.h].file
             entry == ft.entries[file.file_table_index]
         IN  /\ file.start_lba = alloc.data_start_lba + entry.start_block
             /\ file.block_count = entry.block_count

\* C29: init_storage formats only where LBA 0 holds no valid superblock; where
\* it holds one, whatever else makes BlockAllocator::load fail, no format is
\* issued and superblock, bitmap and file table stay as they are on the device.
C29_FormatOnlyBlank ==
    [][(call'.op = "init_storage" /\ call'.image.sb.valid)
         => /\ ~call'.formatted
            /\ dev'.sb = call'.image.sb
            /\ dev'.bitmap = call'.image.bitmap
            /\ dev'.table = call'.image.table]_vars

\* The statuses returned so far are the first of those posted, in posting order.
ReturnedInOrder ==
    /\ Len(queue.returned) <= Len(queue.posted)
    /\ queue.returned = SubSeq(queue.posted, 1, Len(queue.returned))

\* One call of poll_completion, as stated: None and nothing changed where the
\* entry at cq_head has the other phase; on a match cq_head advanced modulo size
\* and the expected phase inverted exactly when cq_head wrapped to 0.
PollStep ==
    call'.op = "poll"
      => IF Phase(queue.cq_buf[queue.cq_head]) # queue.cq_phase
         THEN /\ ~call'.some
              /\ queue'.cq_head = queue.cq_head
              /\ queue'.cq_phase = queue.cq_phase
              /\ queue'.returned = queue.returned
         ELSE /\ call'.some
              /\ queue'.cq_head = (queue.cq_head + 1) % queue.size
              /\ queue'.cq_phase = (queue.cq_phase = (queue'.cq_head # 0))
              /\ Len(queue'.returned) = Len(queue.returned) + 1

\* C30: against a controller that posts in order with the phase of its lap,
\* poll_completion returns a status exactly once for each posted entry, in
\* posting order, and never an entry left from the previous lap; each call
\* behaves as PollStep says.
C30_PollCompletion == []ReturnedInOrder /\ [][PollStep]_vars

\* C30 happens: in a ring of two entries the controller is in its third lap, and
\* every status posted has been returned, the maximal status among them.
C30_Witness ==
    /\ queue.size = 2
    /\ Len(queue.posted) >= 5
    /\ queue.returned = queue.posted
    /\ \E i \in 1..Len(queue.returned) : queue.returned[i] = 32767
    /\ call.op = "poll" /\ call.some

\* C30 happens: a poll found the entry of the previous lap at cq_head and
\* returned None.
C30_WitnessStale ==
    /\ queue.size > 1
    /\ Len(queue.posted) > queue.size
    /\ queue.returned = queue.posted
    /\ call.op = "poll" /\ ~call.some

\* C38: a shm_lock call that returns SQLITE_ERROR because offset + n reaches
\* past the 8 lock slots leaves every slot's shared_count and exclusive flag as
\* they were before the call; stated for the calls that lock.
C38_ShmLockRangeErrorKeepsLocks ==
    [][(/\ call'.op = "shm_lock" /\ ~panicked' /\ shm.some /\ call'.is_lock
        /\ rc' = SQLITE_ERROR
        /\ call'.offset + call'.n > SQLITE_SHM_NLOCK)
         => shm'.locks = shm.locks]_vars

\* C37: after any sequence of init, mark_used, alloc_pages_contiguous and
\* free_pages calls the free_pages counter is the number of clear bits of the
\* bitmap, and freeing pages that are all free already changes nothing.
C37_FreePagesIsClearBits ==
    /\ phys.free_pages = Cardinality(phys.free)
    /\ phys.free \subseteq 0..(MAX_PAGES - 1)

\* C37 happens: free_pages was called on a run of free pages, the counter at
\* the number of clear bits, after pages were allocated and marked used.
C37_Witness ==
    /\ call.op = "free_pages" /\ call.was_free /\ call.base.page < MAX_PAGES
    /\ phys.free_pages = Cardinality(phys.free)
    /\ phys.free_pages > 2
    /\ phys.free_pages < phys.total_pages

\* C39: heavenos_malloc(n) for 1 <= n <= 4096 returns a non-null pointer
\* whenever the page allocator has a free page.
C39_SlabClassesRefill ==
    [][(/\ call'.op = "malloc"
        /\ call'.size >= 1 /\ call'.size <= 4096
        /\ FindPages(phys, 1, 1) # -1)
         => call'.ptr # NullPtr]_vars

\* C40: heavenos_free of a block larger than 4096 bytes gives the page
\* allocator as many pages as the heavenos_malloc that returned it took, for
\* any HHDM offset.
C40_LargeFreeReturnsPages ==
    [][(call'.op = "free" /\ call'.class = LARGE_ALLOC)
         => call'.given * PAGE_SIZE = call'.size + HEADER_SIZE]_vars

\* C36: build_prp of a page-aligned buffer at base for a transfer of n pages
\* returns prp1 = base and: prp2 = 0 for n = 1; prp2 = base + 4096 for n = 2;
\* for n > 2, prp2 the address of a list page whose entry k (k = 0..n-2) is
\* base + (k + 1) * 4096, every entry written inside that page.
C36_BuildPrp ==
    (call.op = "build_prp" /\ call.ok) =>
        /\ call.prp1 = call.base
        /\ call.n = 1 => call.prp2 = Addr(0, 0)
        /\ call.n = 2 => call.prp2 = Addr(call.base.page + 1, 0)
        /\ call.n > 2 =>
             /\ call.prp2.off = 0
             /\ call.prp2.page \notin phys.free
             /\ Len(call.list) = call.n - 1
             /\ \A k \in 0..(call.n - 2) :
                    call.list[k + 1] = Addr(call.base.page + k + 1, 0)
             /\ \A w \in call.written : w.page = call.prp2.page

\* C31: on the admin pair and on the I/O pair, of size S, the commands rung
\* and not yet taken back are at most S - 1, and while no driver operation is
\* in progress sq_tail equals cq_head.
C31_QueueBalance ==
    \A q \in {drv.admin, drv.io} \ {NoQueue} :
        /\ q.rung - q.taken <= q.size - 1
        /\ q.rung - q.taken >= 0
        /\ ~drv.busy => q.sq_tail = q.cq_head

\* The I/O pair has wrapped, the last call returned CommandFailed, and the
\* admin pair has carried all four commands of init.
C31_Witness ==
    /\ drv.step = "ready"
    /\ ~drv.busy
    /\ drv.io.taken >= drv.io.size
    /\ drv.admin.taken = 4
    /\ call.op \in IoKinds /\ call.pc = "returned" /\ ~call.result.ok

\* C34: the result a returned read_blocks, write_blocks or flush gives for the
\* 15-bit status of its completion (code in bits 0-7, code type in bits 8-10)
\* is: success for type 0 code 0; MediaError for type 2; MediaError for type 0
\* code 0x80; CommandFailed(status) for every other status.
C34_StatusMapping ==
    (call.op \in IoKinds /\ call.pc = "returned") =>
        LET sct == (call.status \div 256) % 8
            sc == call.status % 256
        IN  call.result =
                IF sct = 0 /\ sc = 0 THEN Ok
                ELSE IF sct = 2 THEN Err("MediaError")
                ELSE IF sct = 0 /\ sc = 128 THEN Err("MediaError")
                ELSE CommandFailed(call.status)

\* C35: while a read_blocks or write_blocks of more than two pages waits for
\* its completion the PRP-list page is allocated, and once the call has
\* returned the page is free again and the free-page count is the one from
\* before the call.
C35_PrpListReturned ==
    /\ (call.op \in {"read_blocks", "write_blocks"} /\ call.pc = "submitted"
            /\ call.n > 2)
         => call.prp2.page \notin phys.free
    /\ (call.op \in {"read_blocks", "write_blocks"} /\ call.pc = "returned")
         => /\ phys.free_pages = call.free_before
            /\ call.n > 2 => call.prp2.page \in phys.free

\* The steps of init_controller in their order.
InitOrder ==
    <<"disable", "admin_queues", "enable", "identify_controller", "create_io_cq",
      "create_io_sq", "identify_namespace">>

\* What was issued so far is a beginning of the fixed order, and io_queue and
\* ns_info are both set only in the driver that new returned with Ok, after
\* all seven steps and the four admin completions.
InitInOrder ==
    /\ Len(drv.issued) <= Len(InitOrder)
    /\ drv.issued = SubSeq(InitOrder, 1, Len(drv.issued))
    /\ (drv.io_queue /\ drv.ns_info) <=> drv.result = Ok
    /\ drv.result = Ok =>
         /\ drv.step = "ready"
         /\ drv.issued = InitOrder
         /\ drv.admin.taken = 4

\* A step that ends init with an error issues nothing, and the error is the
\* one of the step that failed: from wait_for_ready Timeout when the reads
\* ran out, ControllerFatal when the read showed CFS without the awaited RDY;
\* from an admin command with a non-zero status CommandFailed(status);
\* OutOfMemory when the wait or the command succeeded and the allocation of
\* the next step failed. After the error nothing more is issued.
InitFailure ==
    /\ (drv.step # "failed" /\ drv'.step = "failed") =>
         /\ drv'.issued = drv.issued
         /\ call'.op = "wait_for_ready" =>
              drv'.result = IF ~call'.read THEN Err("Timeout")
                            ELSE IF call'.rdy = call'.target THEN Err("OutOfMemory")
                            ELSE Err("ControllerFatal")
         /\ (call'.op = "wait_for_ready" /\ drv'.result = Err("ControllerFatal"))
              => call'.cfs
         /\ call'.op = "admin" =>
              drv'.result = IF call'.status # 0 THEN CommandFailed(call'.status)
                            ELSE Err("OutOfMemory")
    /\ drv.step = "failed" => drv' = drv

\* C33: init_controller issues its steps in the fixed order (Create I/O CQ
\* before Create I/O SQ), a failing step returns its own error and nothing is
\* issued after it, and a driver with io_queue and ns_info set exists only
\* after all steps succeeded.
C33_InitOrder == []InitInOrder /\ [][InitFailure]_vars

\* new has returned Ok after the seven steps.
C33_Witness ==
    /\ drv.step = "ready"
    /\ drv.result = Ok
    /\ drv.issued = InitOrder
    /\ drv.io_queue /\ drv.ns_info

WaitSteps == {"wait_disabled", "wait_enabled"}

\* A read_blocks, write_blocks or flush has been called and has not returned.
IoCalled == call.op \in IoKinds /\ call.pc # "returned"

\* Nothing is waited for: new has not been called or has returned, and no I/O
\* call is in progress.
NothingPending == drv.step \in {"new", "ready", "failed"} /\ ~IoCalled

\* wait_for_ready has read CSTS at most max_spins times.
WaitBounded == drv.step \in WaitSteps => drv.polls <= MaxSpins(drv)

\* The step in which an admin command or an I/O call stops waiting takes a
\* completion that the controller had posted.
ReturnNeedsCompletion ==
    (drv.busy /\ (~drv'.busy \/ drv'.step # drv.step)) =>
        LET q == IF drv.step = "ready" THEN drv.io ELSE drv.admin
        IN  q.rung - Pending(q) > q.taken

\* The same for the calls that got as far as their doorbell: what holds of the
\* waiting itself, the panic of build_prp left aside.
SubmittedCallsReturn ==
    /\ []<>(drv.step \in {"new", "ready", "failed"}
              /\ (call.op \in IoKinds => call.pc # "submitted"))
    /\ [][ReturnNeedsCompletion]_vars
    /\ []WaitBounded

\* C32: with the controller completing every command it was rung for, the
\* waits and admin commands of init and every read_blocks, write_blocks and
\* flush call come to their return, whatever was started; none of them stops
\* waiting without a completion; and wait_for_ready reads CSTS at most
\* max_spins times.
C32_CallsReturn ==
    /\ []<>NothingPending
    /\ [][ReturnNeedsCompletion]_vars
    /\ []WaitBounded

\* C9: in every state reachable by shm_lock calls, no slot has exclusive set
\* together with shared_count > 0.
C9_SharedExcludesExclusive ==
    \A i \in DOMAIN shm.locks :
        ~(shm.locks[i].exclusive /\ Positive(shm.locks[i].shared_count))

\* C10: a shm_lock(offset, n, LOCK | mode) call that returns SQLITE_BUSY leaves
\* every one of the 8 slots (shared_count and exclusive) as it was before the call.
C10_BusyLeavesLocks ==
    [][(call'.op = "shm_lock" /\ call'.is_lock /\ rc' = SQLITE_BUSY)
           => shm'.locks = shm.locks]_vars

\* C10 happens: a LOCK call over several slots returned SQLITE_BUSY at a later
\* slot, its first slot being one the call could take (and so had to release).
C10_Witness ==
    /\ call.op = "shm_lock" /\ call.is_lock /\ rc = SQLITE_BUSY
    /\ call.n > 1
    /\ IF call.is_exclusive THEN TryExclusive(shm.locks[call.offset]).ok
       ELSE TryShared(shm.locks[call.offset]).ok

====
